---- MODULE Spec2Model ----
(***************************************************************************)
(* Model of the AI Playwright test generator: the Model Invocation Client  *)
(* (src/src/llm/langchain-client.ts), Stage A (LangChainAgentA), Stage B   *)
(* (LangChainAgentB), Stage C (MCPEnhancedAgentC / LangChainAgentC), the   *)
(* analysis agent (AnalysisAgentG) and the orchestrator (TestGenerator).   *)
(***************************************************************************)
EXTENDS Integers, Sequences, FiniteSets, TLC

VARIABLES
    \* ---- LangChainClient.generateWithRetry (one call) ----
    rpc,            \* position: "loop" | "sleep" | "returned" | "raised"
    argMaxRetries,  \* the maxRetries argument (0 = omitted / falsy)
    cfgMaxRetries,  \* this.config.maxRetries (0 = falsy, e.g. NaN from parseInt)
    attempt,        \* the loop variable
    lastError,      \* the local lastError
    rlog,           \* what the environment saw: model invocations and sleeps, in order
    rresult,        \* what the caller observes
    \* ---- Stage A then Stage B, one story (stage-level runs) ----
    sPc,            \* "init" | "expanded" | "validating"
    sStory,         \* the story: which step template its text selects
    sResp,          \* the model's outcome for Stage A's call
    sScenarios,     \* what expandUserStory returned
    sValidated,     \* what validateScenario returned, scenario by scenario
    \* ---- TestGenerator.generateTests (one pipeline run) ----
    pc,             \* where generateTests is
    userStory,      \* const userStory
    aCalls,         \* model invocations made for Stage A's call
    aOut,           \* how expandUserStory ended
    scenarios,      \* const scenarios
    bUnits,         \* the validateScenario promises of Stage B
    validated,      \* const validatedScenarios
    cUnits,         \* the generateSingleTest promises of Stage C
    tests,          \* const playwrightTests
    writtenFiles,   \* const writtenFiles
    gUnits,         \* the analyzeIndividualTest promises of Stage G
    report,         \* const engineerReport
    \* ---- generateSingleTest of both Stage C agents, one (title, device) ----
    fTitle,         \* scenario.title, a sequence of characters
    fDevice,        \* scenario.device ("" = absent)
    fTests,         \* the PlaywrightTests produced for that scenario so far
    \* ---- the file write loop of generateTests, one batch of two scenarios ----
    wTitles,        \* the titles of the batch's scenarios, in batch order
    wDevice,        \* their common device ("" = absent)
    wTests,         \* const playwrightTests: filename and content per scenario
    wNext,          \* the loop's position (0 = Stage C has not returned yet)
    wDisk,          \* the output directory: the files it holds and what they hold
    \* ---- AnalysisAgentG.analyzeIndividualTest, one test file ----
    gContent,       \* test.content, line by line
    gDiag,          \* the lines of the TypeScript compiler's diagnostics for it
    gAnalyses,      \* the TestAnalysisResults obtained for it so far
    \* ---- AnalysisAgentG.calculateQualityScore, one analysis ----
    qLists,         \* the six issue lists of the analysis
    qScore,         \* its overallScore
    \* ---- AnalysisAgentG.analyzeTestsAndGenerateReport, one batch ----
    hResults,       \* const analysisResults, as far as the batch has got
    hReport,        \* the report, once generated
    \* ---- RAGRetriever, one look-up of LangChainAgentB's fallback ----
    kText,          \* the text the keywords are extracted from
    kKeywords,      \* const keywords
    kSelectors,     \* const relevantSelectors (its keys)
    kEndpoints,     \* const relevantEndpoints
    \* ---- new LangChainClient(config), then calls through the client ----
    lConfig,        \* the constructor's config argument ("" = field absent)
    lEnv,           \* process.env ("" = variable unset)
    lClient,        \* "none" | "constructed" | "raised"
    lCalls,         \* model invocations made through the client
    \* ---- AnalysisAgentG.analyzeSyntaxErrors, one call, step by step ----
    xDiag,          \* what ts.getPreEmitDiagnostics returns for the content
    xPc,            \* "try" | "forEach" | "returned"
    xNext,          \* the diagnostic the forEach callback handles next
    xErrors,        \* const errors
    xCaught,        \* whether the catch block ran
    \* ---- generateTests on the deterministic path (no model), texts kept ----
    tStory,         \* userStory.description, a sequence of characters
    tKb,            \* kb.selectors: its (category, name) entries
    tPc,            \* "A" | "B" | "C" | "write" | "done"
    tScenarios,     \* const scenarios
    tValidated,     \* the validated scenarios obtained so far
    tTests,         \* const playwrightTests
    tDisk,          \* the output directory
    tWritten,       \* const writtenFiles
    \* ---- LangChainAgentC.generateFallbackTestContent, one scenario ----
    uSteps,         \* scenario.steps, each a sequence of characters
    uType,          \* scenario.type
    uOutcome,       \* scenario.expected_outcome, a sequence of characters
    uBody,          \* the rendered test body ({} = not rendered yet)
    \* ---- MCPEnhancedAgentC.generatePlaywrightTests, one call ----
    mPc,            \* "initialize" | "map" | "await" | "disconnect" | "returned" | "failed"
    mUnits,         \* the generateSingleTest promises: "idle" | "pending" | "fulfilled" | "rejected"
    mConnected,     \* mcpClient.isConnected
    mLog            \* the calls on the MCP client and the starts and ends of the generations, in order

retryVars == <<rpc, argMaxRetries, cfgMaxRetries, attempt, lastError, rlog, rresult>>
stageVars == <<sPc, sStory, sResp, sScenarios, sValidated>>
pipeVars == <<pc, userStory, aCalls, aOut, scenarios, bUnits, validated, cUnits, tests,
              writtenFiles, gUnits, report>>

fileVars == <<fTitle, fDevice, fTests>>

writeVars == <<wTitles, wDevice, wTests, wNext, wDisk>>

analysisVars == <<gContent, gDiag, gAnalyses>>

scoreVars == <<qLists, qScore>>

reportVars == <<hResults, hReport>>

kbVars == <<kText, kKeywords, kSelectors, kEndpoints>>

clientVars == <<lConfig, lEnv, lClient, lCalls>>

syntaxVars == <<xDiag, xPc, xNext, xErrors, xCaught>>

storyVars == <<tStory, tKb, tPc, tScenarios, tValidated, tTests, tDisk, tWritten>>

renderVars == <<uSteps, uType, uOutcome, uBody>>

mcpVars == <<mPc, mUnits, mConnected, mLog>>

vars == <<retryVars, stageVars, pipeVars, fileVars, writeVars, analysisVars, scoreVars,
          reportVars, kbVars,
          clientVars,
          syntaxVars,
          storyVars,
          renderVars,
          mcpVars>>

notRetry == <<stageVars, pipeVars, fileVars, writeVars, analysisVars, scoreVars, reportVars, kbVars, clientVars, syntaxVars, storyVars, renderVars, mcpVars>>
notStage == <<retryVars, pipeVars, fileVars, writeVars, analysisVars, scoreVars, reportVars, kbVars, clientVars, syntaxVars, storyVars, renderVars, mcpVars>>
notPipe == <<retryVars, stageVars, fileVars, writeVars, analysisVars, scoreVars, reportVars, kbVars, clientVars, syntaxVars, storyVars, renderVars, mcpVars>>
notFile == <<retryVars, stageVars, pipeVars, writeVars, analysisVars, scoreVars, reportVars, kbVars, clientVars, syntaxVars, storyVars, renderVars, mcpVars>>
notWrite == <<retryVars, stageVars, pipeVars, fileVars, analysisVars, scoreVars, reportVars, kbVars, clientVars, syntaxVars, storyVars, renderVars, mcpVars>>
notAnalysis == <<retryVars, stageVars, pipeVars, fileVars, writeVars, scoreVars, reportVars, kbVars, clientVars, syntaxVars, storyVars, renderVars, mcpVars>>
notScore == <<retryVars, stageVars, pipeVars, fileVars, writeVars, analysisVars, reportVars, kbVars, clientVars, syntaxVars, storyVars, renderVars, mcpVars>>
notReport == <<retryVars, stageVars, pipeVars, fileVars, writeVars, analysisVars, scoreVars, kbVars, clientVars, syntaxVars, storyVars, renderVars, mcpVars>>
notKb == <<retryVars, stageVars, pipeVars, fileVars, writeVars, analysisVars, scoreVars, reportVars, clientVars, syntaxVars, storyVars, renderVars, mcpVars>>
notClient == <<retryVars, stageVars, pipeVars, fileVars, writeVars, analysisVars, scoreVars, reportVars, kbVars, syntaxVars, storyVars, renderVars, mcpVars>>
notSyntax == <<retryVars, stageVars, pipeVars, fileVars, writeVars, analysisVars, scoreVars, reportVars, kbVars, clientVars, storyVars, renderVars, mcpVars>>
notStory == <<retryVars, stageVars, pipeVars, fileVars, writeVars, analysisVars, scoreVars, reportVars, kbVars, clientVars, syntaxVars, renderVars, mcpVars>>
notRender == <<retryVars, stageVars, pipeVars, fileVars, writeVars, analysisVars, scoreVars, reportVars, kbVars, clientVars, syntaxVars, storyVars, mcpVars>>
notMcp == <<retryVars, stageVars, pipeVars, fileVars, writeVars, analysisVars, scoreVars, reportVars, kbVars, clientVars, syntaxVars, storyVars, renderVars>>

(***************************************************************************)
(* Bounds                                                                  *)
(***************************************************************************)
MaxAttempts == 4

ModelErrors == {"e1", "e2"}
ModelTexts == {"t1", "t2"}

NoError == [message |-> <<>>]
NoResult == [kind |-> "none"]

RECURSIVE Pow2(_)
Pow2(n) == IF n = 0 THEN 1 ELSE 2 * Pow2(n - 1)

(***************************************************************************)
(* LangChainClient                                                         *)
(***************************************************************************)
DefaultMaxRetries == 3

\* const retries = maxRetries || this.config.maxRetries || 3;
ResolveRetries(arg, cfg) ==
    IF arg # 0 THEN arg ELSE IF cfg # 0 THEN cfg ELSE DefaultMaxRetries

retries == ResolveRetries(argMaxRetries, cfgMaxRetries)

\* generateResponse: a failure of model.invoke is rethrown wrapped
GenerateResponseError(e) == [message |-> <<"Failed to generate LLM response", e>>]

\* lastError = error as Error
NextLastError_keepFirst(prev, err) == IF prev = NoError THEN err ELSE prev
NextLastError(prev, err) == err

\* if (attempt < retries)
ShouldSleep_afterLast(a, n) == a <= n
ShouldSleep(a, n) == a < n

\* Math.pow(2, attempt) * 1000
BackoffMs_fromOne(a) == Pow2(a - 1) * 1000
BackoffMs(a) == Pow2(a) * 1000

\* throw new Error(`LLM failed after ${retries} attempts. Last error: ${lastError!.message}`)
RetryFailure(n, err) == [kind |-> "raised", retries |-> n, last |-> err.message]

\* try { return await this.generateResponse(...) }
AttemptOk ==
    /\ rpc = "loop"
    /\ attempt <= retries
    /\ \E t \in ModelTexts :
        /\ rlog' = Append(rlog, [ev |-> "invoke", attempt |-> attempt, ok |-> TRUE, val |-> t])
        /\ rresult' = [kind |-> "returned", text |-> t]
    /\ rpc' = "returned"
    /\ UNCHANGED <<argMaxRetries, cfgMaxRetries, attempt, lastError>>
    /\ UNCHANGED notRetry

\* catch (error) { lastError = error; if (attempt < retries) await sleep }
AttemptFail ==
    /\ rpc = "loop"
    /\ attempt <= retries
    /\ \E e \in ModelErrors :
        /\ rlog' = Append(rlog, [ev |-> "invoke", attempt |-> attempt, ok |-> FALSE, val |-> e])
        /\ lastError' = NextLastError(lastError, GenerateResponseError(e))
    /\ IF ShouldSleep(attempt, retries)
          THEN rpc' = "sleep" /\ attempt' = attempt
          ELSE rpc' = "loop" /\ attempt' = attempt + 1
    /\ UNCHANGED <<argMaxRetries, cfgMaxRetries, rresult>>
    /\ UNCHANGED notRetry

\* await new Promise(resolve => setTimeout(resolve, Math.pow(2, attempt) * 1000)); attempt++
Backoff ==
    /\ rpc = "sleep"
    /\ rlog' = Append(rlog, [ev |-> "sleep", attempt |-> attempt, ok |-> TRUE, val |-> BackoffMs(attempt)])
    /\ attempt' = attempt + 1
    /\ rpc' = "loop"
    /\ UNCHANGED <<argMaxRetries, cfgMaxRetries, lastError, rresult>>
    /\ UNCHANGED notRetry

\* the loop ends: throw
RetryRaise ==
    /\ rpc = "loop"
    /\ attempt > retries
    /\ rresult' = RetryFailure(retries, lastError)
    /\ rpc' = "raised"
    /\ UNCHANGED <<argMaxRetries, cfgMaxRetries, attempt, lastError, rlog>>
    /\ UNCHANGED notRetry

IsInvoke(x) == x.ev = "invoke"
IsSleep(x) == x.ev = "sleep"
Invocations == SelectSeq(rlog, IsInvoke)
Sleeps == SelectSeq(rlog, IsSleep)
RetryEnded == rpc \in {"returned", "raised"}

\* C4: with ceiling n >= 1, a call that raises has invoked the model exactly n
\* times and slept exactly n-1 times; a call that returns on attempt j has
\* invoked it j times and slept j-1 times; the k-th sleep lasts 2^k seconds and
\* no sleep follows the last attempt.
C4_RetryCountsAndBackoff ==
    /\ rpc = "raised" =>
          /\ Len(Invocations) = retries
          /\ Len(Sleeps) = retries - 1
    /\ rpc = "returned" =>
          /\ Len(Invocations) \in 1..retries
          /\ Invocations[Len(Invocations)].ok
          /\ \A i \in 1..(Len(Invocations) - 1) : ~Invocations[i].ok
          /\ Len(Sleeps) = Len(Invocations) - 1
    /\ \A k \in 1..Len(Sleeps) : Sleeps[k].val = Pow2(k) * 1000
    /\ RetryEnded => rlog[Len(rlog)].ev = "invoke"
    /\ (rpc = "raised" /\ retries = 3) =>
          /\ Len(Invocations) = 3
          /\ [k \in 1..Len(Sleeps) |-> Sleeps[k].val] = <<2000, 4000>>

C4_Witness ==
    /\ rpc = "raised"
    /\ retries = 3
    /\ Len(Invocations) = 3
    /\ Len(Sleeps) = 2

\* C5: the call raises only when every attempt up to the ceiling failed, and the
\* failure carries the error of the last attempt; when an attempt succeeds its
\* text is returned and nothing is raised.
C5_RetryRaisesLastError ==
    /\ rpc = "raised" =>
          /\ Len(Invocations) = retries
          /\ \A i \in 1..Len(Invocations) : ~Invocations[i].ok
          /\ rresult.kind = "raised"
          /\ rresult.last = <<"Failed to generate LLM response", Invocations[Len(Invocations)].val>>
    /\ rpc = "returned" =>
          /\ Invocations[Len(Invocations)].ok
          /\ rresult = [kind |-> "returned", text |-> Invocations[Len(Invocations)].val]
    /\ (\E i \in 1..Len(Invocations) : Invocations[i].ok) => rpc = "returned"

C5_Witness ==
    /\ rpc = "raised"
    /\ Len(Invocations) >= 2
    /\ Invocations[1].val # Invocations[Len(Invocations)].val

(***************************************************************************)
(* Stage A: LangChainAgentA                                                *)
(***************************************************************************)
Kinds == {"positive", "negative", "edge", "cross-device"}

\* the branch of generatePositiveSteps the story text selects
StoryKinds == {"signup", "signin", "credit", "generic"}

\* the longest array the model returns
MaxModelLen == 2

ArraySteps(n) == [isArray |-> TRUE, n |-> n]
ScalarSteps == [isArray |-> FALSE, n |-> 1]
NoSteps == [isArray |-> FALSE, n |-> 0]

RawElem(t, k, d, st, o, dev) ==
    [title |-> t, type |-> k, description |-> d, steps |-> st,
     expected_outcome |-> o, device |-> dev]

\* the objects the model puts in its array ("" is a missing or falsy field)
ModelElems ==
    { RawElem("m1", "positive", "d", ArraySteps(2), "o", ""),
      RawElem("m2", "cross-device", "d", ArraySteps(0), "o", ""),
      RawElem("m3", "smoke", "d", ScalarSteps, "o", "tablet"),
      RawElem("m4", "negative", "d", ArraySteps(1), "", ""),
      RawElem("m5", "edge", "d", NoSteps, "o", "desktop"),
      RawElem("m6", "edge", "d", ArraySteps(1), "o", "watch") }

SeqsUpTo(S, n) == UNION { [1..k -> S] : k \in 0..n }

AResp(k, items) == [kind |-> k, items |-> items]

\* what the model call of Stage A can end in
AResponses(elems, n) ==
    { AResp("fail", <<>>), AResp("text", <<>>), AResp("json_null", <<>>) }
        \cup { AResp("array", a) : a \in SeqsUpTo(elems, n) }

\* const missingFields = requiredFields.filter(field => !scenario[field]);
MissingFields(raw) ==
    { f \in {"title", "type", "description", "expected_outcome"} : raw[f] = "" }
        \cup (IF raw.steps = NoSteps THEN {"steps"} ELSE {})

Scenario(t, k, d, n, o, dev) ==
    [title |-> t, type |-> k, description |-> d, steps |-> n,
     expected_outcome |-> o, device |-> dev]

\* validateScenario, for an element with no missing field
ValidateScenarioA(raw) ==
    LET k == IF raw.type \in Kinds THEN raw.type ELSE "positive"
        n == IF raw.steps.isArray THEN raw.steps.n ELSE 1
        dev == IF raw.device # "" THEN raw.device
               ELSE IF k = "cross-device" THEN "mobile" ELSE "desktop"
    IN  Scenario(raw.title, k, raw.description, n, raw.expected_outcome, dev)

\* parseScenarios, were it to drop the elements with a missing field
ParseScenarios_skipInvalid(resp) ==
    IF resp.kind # "array" THEN [ok |-> FALSE, scenarios |-> <<>>]
    ELSE LET valid == SelectSeq(resp.items, LAMBDA raw : MissingFields(raw) = {})
         IN  [ok |-> TRUE,
              scenarios |-> [i \in 1..Len(valid) |-> ValidateScenarioA(valid[i])]]

\* parseScenarios: ok = FALSE is the thrown parse failure
ParseScenarios(resp) ==
    IF resp.kind # "array" THEN [ok |-> FALSE, scenarios |-> <<>>]
    ELSE IF \E i \in 1..Len(resp.items) : MissingFields(resp.items[i]) # {}
         THEN [ok |-> FALSE, scenarios |-> <<>>]
    ELSE [ok |-> TRUE,
          scenarios |-> [i \in 1..Len(resp.items) |-> ValidateScenarioA(resp.items[i])]]

\* generatePositiveSteps: 'Navigate to the application' and the template's steps
PositiveSteps(story) == IF story = "credit" THEN 7 ELSE 5
NegativeSteps == 5
EdgeCaseSteps == 6

GenerateFallbackScenarios(story) ==
    << Scenario("Happy Path", "positive", "d", PositiveSteps(story), "o", "desktop"),
       Scenario("Invalid Input", "negative", "d", NegativeSteps, "o", "desktop"),
       Scenario("Network Error", "edge", "d", EdgeCaseSteps, "o", "desktop"),
       Scenario("Mobile Experience", "cross-device", "d", PositiveSteps(story), "o", "mobile") >>

\* expandUserStory: the try block, and the catch block's fallback
ExpandUserStory(story, resp) ==
    LET parsed == ParseScenarios(resp)
    IN  IF resp.kind # "fail" /\ parsed.ok
        THEN [path |-> "primary", scenarios |-> parsed.scenarios]
        ELSE [path |-> "fallback", scenarios |-> GenerateFallbackScenarios(story)]

(***************************************************************************)
(* Stage B: LangChainAgentB                                                *)
(***************************************************************************)
\* what the model call of one validateScenario can end in: a failure, text that
\* is no JSON, JSON null, an object with the three fields, an object without
BResponses == {"fail", "text", "json_null", "json_full", "json_empty"}

\* parseValidationResponse: JSON.parse throws on text; a property read of null throws
ParseValidationResponse(r) ==
    IF r \in {"text", "json_null"} THEN [ok |-> FALSE, from |-> "none"]
    ELSE [ok |-> TRUE, from |-> IF r = "json_full" THEN "llm" ELSE "default"]

\* generateValidationNotes: how many notes
GenerateValidationNotes(s) ==
    2 + (IF s.device = "mobile" THEN 1 ELSE 0)
      + (IF s.type \in {"negative", "edge"} THEN 1 ELSE 0)

Validated(s, path, from, notes) ==
    [scenario |-> s, path |-> path, selectors |-> from, api_endpoints |-> from,
     validation_notes |-> notes]

\* performFallbackValidation
PerformFallbackValidation(s) == Validated(s, "fallback", "kb", GenerateValidationNotes(s))

\* validateScenario of Stage B: the try block, and the catch block's fallback
ValidateScenarioB(s, r) ==
    LET parsed == ParseValidationResponse(r)
    IN  IF r # "fail" /\ parsed.ok
        THEN Validated(s, "primary", parsed.from, IF r = "json_full" THEN 1 ELSE 0)
        ELSE PerformFallbackValidation(s)

\* agentA.expandUserStory(userStory)
StageExpand ==
    /\ sPc = "init"
    /\ sScenarios' = ExpandUserStory(sStory, sResp).scenarios
    /\ sPc' = "expanded"
    /\ UNCHANGED <<sStory, sResp, sValidated>>
    /\ UNCHANGED notStage

\* agentB.validateScenario(scenario), for the next scenario of the batch
StageValidate ==
    /\ sPc = "expanded"
    /\ Len(sValidated) < Len(sScenarios)
    /\ \E r \in BResponses :
        sValidated' = Append(sValidated, ValidateScenarioB(sScenarios[Len(sValidated) + 1], r))
    /\ UNCHANGED <<sPc, sStory, sResp, sScenarios>>
    /\ UNCHANGED notStage

(***************************************************************************)
(* Promise.all over the per-item promises of a stage                       *)
(***************************************************************************)
NoVal == [path |-> "none"]
Unit(st, calls, i, val) == [st |-> st, calls |-> calls, out |-> [origin |-> i, val |-> val]]

\* Promise.all(...) fulfils when every promise has fulfilled
PromiseAllFulfilled_any(units) == \E i \in 1..Len(units) : units[i].st = "fulfilled"
PromiseAllFulfilled(units) == \A i \in 1..Len(units) : units[i].st = "fulfilled"

IsPrimary(o) == o.val.path = "primary"
IsNotPrimary(o) == o.val.path # "primary"

\* Promise.all(...) fulfils with the values in the order of the promises
PromiseAll_fallbacksLast(units) ==
    LET outs == [i \in 1..Len(units) |-> units[i].out]
    IN  SelectSeq(outs, IsPrimary) \o SelectSeq(outs, IsNotPrimary)
PromiseAll(units) == [i \in 1..Len(units) |-> units[i].out]

(***************************************************************************)
(* Stage C: MCPEnhancedAgentC (the agent TestGenerator constructs)         *)
(***************************************************************************)
\* what one model call of Stage C or Stage G can end in: a failure, or source
\* text in which the detectors find no issue / find issues
CodeResponses == {"fail", "clean", "flawed"}

\* the (title, device) pair generateFilename derives the filename from
FilenameOf(v) == <<v.scenario.title, v.scenario.device>>

PlaywrightTest(v, path, src, quality) ==
    [filename |-> FilenameOf(v), path |-> path, content |-> [src |-> src, quality |-> quality]]

(***************************************************************************)
(* Stage G: AnalysisAgentG                                                 *)
(***************************************************************************)
\* generateLLMRecommendations: if (totalIssues === 0) return [...] without a call
NeedsRecommendationCall(t) == t.content.quality # "clean"

TestAnalysis(t, path, fixes) ==
    [filename |-> t.filename, path |-> path, quality |-> t.content.quality,
     recommendedFixes |-> fixes]

NoReport == [totalTests |-> -1, testAnalyses |-> <<>>]

(***************************************************************************)
(* TestGenerator.generateTests                                             *)
(***************************************************************************)
\* the largest array the model returns to Stage A in a pipeline run
MaxPipeLen == 2

PipeElems ==
    { RawElem("m1", "positive", "d", ArraySteps(2), "o", ""),
      RawElem("m2", "cross-device", "d", ArraySteps(0), "o", "") }

PipeBResponses == {"fail", "json_full"}

\* agentA.expandUserStory: generateWithTemplate makes its one chain.call
CallA ==
    /\ pc = "start"
    /\ aCalls' = aCalls + 1
    /\ pc' = "A_wait"
    /\ UNCHANGED <<userStory, aOut, scenarios, bUnits, validated, cUnits, tests, writtenFiles, gUnits, report>>
    /\ UNCHANGED notPipe

\* the call settles; expandUserStory returns (try block or catch block)
ReplyA ==
    /\ pc = "A_wait"
    /\ \E resp \in AResponses(PipeElems, MaxPipeLen) :
        LET r == ExpandUserStory(userStory, resp)
        IN  /\ scenarios' = r.scenarios
            /\ aOut' = [path |-> r.path, invocationFailed |-> resp.kind = "fail"]
    /\ pc' = "B"
    /\ UNCHANGED <<userStory, aCalls, bUnits, validated, cUnits, tests, writtenFiles, gUnits, report>>
    /\ UNCHANGED notPipe

\* agentB.validateScenarios: scenarios.map(...) starts every validateScenario
StartB ==
    /\ pc = "B"
    /\ bUnits' = [i \in 1..Len(scenarios) |-> Unit("calling", 1, i, NoVal)]
    /\ pc' = "B_wait"
    /\ UNCHANGED <<userStory, aCalls, aOut, scenarios, validated, cUnits, tests, writtenFiles, gUnits, report>>
    /\ UNCHANGED notPipe

\* the model call of one validateScenario settles
ReplyB ==
    /\ \E i \in 1..Len(bUnits) :
        /\ bUnits[i].st = "calling"
        /\ \E r \in PipeBResponses :
            bUnits' = [bUnits EXCEPT ![i] =
                          Unit("fulfilled", 1, i, ValidateScenarioB(scenarios[i], r))]
    /\ UNCHANGED <<pc, userStory, aCalls, aOut, scenarios, validated, cUnits, tests, writtenFiles, gUnits, report>>
    /\ UNCHANGED notPipe

\* Promise.all of Stage B fulfils; validateScenarios returns
JoinB ==
    /\ pc = "B_wait"
    /\ PromiseAllFulfilled(bUnits)
    /\ validated' = PromiseAll(bUnits)
    /\ pc' = "C"
    /\ UNCHANGED <<userStory, aCalls, aOut, scenarios, bUnits, cUnits, tests, writtenFiles, gUnits, report>>
    /\ UNCHANGED notPipe

\* agentC.generatePlaywrightTests: after mcpClient.initialize(), map starts every
\* generateSingleTest, each with its first generateResponse call
StartC ==
    /\ pc = "C"
    /\ cUnits' = [i \in 1..Len(validated) |-> Unit("calling", 1, i, NoVal)]
    /\ pc' = "C_wait"
    /\ UNCHANGED <<userStory, aCalls, aOut, scenarios, bUnits, validated, tests, writtenFiles, gUnits, report>>
    /\ UNCHANGED notPipe

\* generateSingleTest, try block: the first call settles
ReplyC ==
    /\ \E i \in 1..Len(cUnits) :
        /\ cUnits[i].st = "calling"
        /\ \E r \in CodeResponses :
            cUnits' = [cUnits EXCEPT ![i] =
                IF r = "fail"
                THEN Unit("retrying", 2, i, NoVal)
                ELSE Unit("fulfilled", 1, i, PlaywrightTest(validated[i].val, "primary", "llm", r))]
    /\ UNCHANGED <<pc, userStory, aCalls, aOut, scenarios, bUnits, validated, tests, writtenFiles, gUnits, report>>
    /\ UNCHANGED notPipe

\* generateSingleTest, catch block: its generateResponse call returns
ReplyCatchC ==
    /\ \E i \in 1..Len(cUnits) :
        /\ cUnits[i].st = "retrying"
        /\ \E r \in CodeResponses \ {"fail"} :
            cUnits' = [cUnits EXCEPT ![i] =
                Unit("fulfilled", 2, i, PlaywrightTest(validated[i].val, "fallback", "llm_fixed", r))]
    /\ UNCHANGED <<pc, userStory, aCalls, aOut, scenarios, bUnits, validated, tests, writtenFiles, gUnits, report>>
    /\ UNCHANGED notPipe

\* generateSingleTest, catch block: its generateResponse call throws, the promise
\* rejects, Promise.all rejects at once and generateTests rethrows
RejectC ==
    /\ \E i \in 1..Len(cUnits) :
        /\ cUnits[i].st = "retrying"
        /\ cUnits' = [cUnits EXCEPT ![i] = Unit("rejected", 2, i, NoVal)]
    /\ pc' = IF pc = "C_wait" THEN "failed" ELSE pc
    /\ UNCHANGED <<userStory, aCalls, aOut, scenarios, bUnits, validated, tests, writtenFiles, gUnits, report>>
    /\ UNCHANGED notPipe

\* Promise.all of Stage C fulfils; mcpClient.disconnect(); generatePlaywrightTests returns
JoinC ==
    /\ pc = "C_wait"
    /\ PromiseAllFulfilled(cUnits)
    /\ tests' = PromiseAll(cUnits)
    /\ pc' = "write"
    /\ UNCHANGED <<userStory, aCalls, aOut, scenarios, bUnits, validated, cUnits, writtenFiles, gUnits, report>>
    /\ UNCHANGED notPipe

\* for (const test of playwrightTests) { writeFileSync; writtenFiles.push }
WriteFiles ==
    /\ pc = "write"
    /\ writtenFiles' = [i \in 1..Len(tests) |-> tests[i].val.filename]
    /\ pc' = "G"
    /\ UNCHANGED <<userStory, aCalls, aOut, scenarios, bUnits, validated, cUnits, tests, gUnits, report>>
    /\ UNCHANGED notPipe

\* agentG.analyzeTestsAndGenerateReport: tests.map(...) starts every
\* analyzeIndividualTest; the detectors run, then generateLLMRecommendations
StartG ==
    /\ pc = "G"
    /\ gUnits' = [i \in 1..Len(tests) |->
                    IF NeedsRecommendationCall(tests[i].val)
                    THEN Unit("calling", 1, i, NoVal)
                    ELSE Unit("fulfilled", 0, i, TestAnalysis(tests[i].val, "primary", "none_needed"))]
    /\ pc' = "G_wait"
    /\ UNCHANGED <<userStory, aCalls, aOut, scenarios, bUnits, validated, cUnits, tests, writtenFiles, report>>
    /\ UNCHANGED notPipe

\* generateLLMRecommendations: the call settles (try block or catch block)
ReplyG ==
    /\ \E i \in 1..Len(gUnits) :
        /\ gUnits[i].st = "calling"
        /\ \E ok \in BOOLEAN :
            gUnits' = [gUnits EXCEPT ![i] =
                Unit("fulfilled", 1, i,
                     IF ok THEN TestAnalysis(tests[i].val, "primary", "llm")
                           ELSE TestAnalysis(tests[i].val, "fallback", "generic"))]
    /\ UNCHANGED <<pc, userStory, aCalls, aOut, scenarios, bUnits, validated, cUnits, tests, writtenFiles, report>>
    /\ UNCHANGED notPipe

\* Promise.all of Stage G fulfils; generateComprehensiveReport, saveReportToFile
JoinG ==
    /\ pc = "G_wait"
    /\ PromiseAllFulfilled(gUnits)
    /\ report' = [totalTests |-> Len(tests), testAnalyses |-> PromiseAll(gUnits)]
    /\ pc' = "summary"
    /\ UNCHANGED <<userStory, aCalls, aOut, scenarios, bUnits, validated, cUnits, tests, writtenFiles, gUnits>>
    /\ UNCHANGED notPipe

\* generateSummaryReport; generateTests returns
Summary ==
    /\ pc = "summary"
    /\ pc' = "done"
    /\ UNCHANGED <<userStory, aCalls, aOut, scenarios, bUnits, validated, cUnits, tests, writtenFiles, gUnits, report>>
    /\ UNCHANGED notPipe

(***************************************************************************)
(* generateFilename and generateSingleTest of LangChainAgentC and of       *)
(* MCPEnhancedAgentC                                                       *)
(***************************************************************************)
\* the longest title
MaxTitleLen == 3

UpperCase == <<"A", "B", "C", "D", "E", "F", "G", "H", "I", "J", "K", "L", "M",
               "N", "O", "P", "Q", "R", "S", "T", "U", "V", "W", "X", "Y", "Z">>
LowerCase == <<"a", "b", "c", "d", "e", "f", "g", "h", "i", "j", "k", "l", "m",
               "n", "o", "p", "q", "r", "s", "t", "u", "v", "w", "x", "y", "z">>
LowerChars == {LowerCase[i] : i \in 1..26}
DigitChars == {"0", "1", "2", "3", "4", "5", "6", "7", "8", "9"}
SpaceChars == {" "}
TitleChars == {"a", "B", " ", "-", "!"}
Devices == {"", "desktop", "mobile", "tablet"}

\* String.prototype.toLowerCase, one character
LowerChar(c) ==
    IF \E i \in 1..26 : UpperCase[i] = c
    THEN LowerCase[CHOOSE i \in 1..26 : UpperCase[i] = c] ELSE c
ToLowerCase(str) == [i \in 1..Len(str) |-> LowerChar(str[i])]

\* .replace(/[^a-z0-9\s-]/g, '')
IsKept(c) == c \in LowerChars \cup DigitChars \cup SpaceChars \cup {"-"}
StripOthers(str) == SelectSeq(str, IsKept)

\* .replace(/\s+/g, '-'): every maximal run of white space becomes one hyphen
RECURSIVE SpacesToHyphen(_)
SpacesToHyphen(str) ==
    IF str = <<>> THEN <<>>
    ELSE IF Head(str) \in SpaceChars
         THEN IF Len(str) > 1 /\ str[2] \in SpaceChars
              THEN SpacesToHyphen(Tail(str))
              ELSE <<"-">> \o SpacesToHyphen(Tail(str))
         ELSE <<Head(str)>> \o SpacesToHyphen(Tail(str))

\* .replace(/-+/g, '-'): every maximal run of hyphens becomes one hyphen
RECURSIVE CollapseHyphens(_)
CollapseHyphens(str) ==
    IF str = <<>> THEN <<>>
    ELSE IF Head(str) = "-" /\ Len(str) > 1 /\ str[2] = "-"
         THEN CollapseHyphens(Tail(str))
         ELSE <<Head(str)>> \o CollapseHyphens(Tail(str))

\* .trim()
RECURSIVE TrimLeft(_)
TrimLeft(str) ==
    IF str # <<>> /\ Head(str) \in SpaceChars THEN TrimLeft(Tail(str)) ELSE str
RECURSIVE TrimRight(_)
TrimRight(str) ==
    IF str # <<>> /\ str[Len(str)] \in SpaceChars
    THEN TrimRight(SubSeq(str, 1, Len(str) - 1)) ELSE str
Trim(str) == TrimRight(TrimLeft(str))

DeviceChars(d) ==
    CASE d = "desktop" -> <<"d", "e", "s", "k", "t", "o", "p">>
      [] d = "mobile" -> <<"m", "o", "b", "i", "l", "e">>
      [] d = "tablet" -> <<"t", "a", "b", "l", "e", "t">>
      [] OTHER -> <<>>

SpecTs == <<".", "s", "p", "e", "c", ".", "t", "s">>

\* const device = scenario.device ? `-${scenario.device}` : '';
DeviceSuffix(d) == IF d # "" THEN <<"-">> \o DeviceChars(d) ELSE <<>>

\* LangChainAgentC.generateFilename
GenerateFilenameLC(title, device) ==
    Trim(CollapseHyphens(SpacesToHyphen(StripOthers(ToLowerCase(title)))))
        \o DeviceSuffix(device) \o SpecTs

\* MCPEnhancedAgentC.generateFilename
GenerateFilenameMCP_noDevice(title, device) ==
    Trim(CollapseHyphens(SpacesToHyphen(StripOthers(ToLowerCase(title))))) \o SpecTs
GenerateFilenameMCP(title, device) ==
    Trim(CollapseHyphens(SpacesToHyphen(StripOthers(ToLowerCase(title)))))
        \o DeviceSuffix(device) \o SpecTs

FileTest(agent, path, content, name) ==
    [agent |-> agent, path |-> path, content |-> content, title |-> fTitle,
     device |-> fDevice, filename |-> name]

\* LangChainAgentC.generateSingleTest: the filename first, then the model's
\* text (try block) or the template (catch block)
GenerateSingleTestLC ==
    /\ \E r \in CodeResponses :
        LET filename == GenerateFilenameLC(fTitle, fDevice)
        IN  fTests' = fTests \cup
                { IF r = "fail" THEN FileTest("langchain", "fallback", "template", filename)
                  ELSE FileTest("langchain", "primary", r, filename) }
    /\ UNCHANGED <<fTitle, fDevice>>
    /\ UNCHANGED notFile

\* MCPEnhancedAgentC.generateSingleTest: the filename first, then the model's
\* text (try block), or the text of a second call (catch block), or a rejection
GenerateSingleTestMCP ==
    /\ \E r1 \in CodeResponses, r2 \in CodeResponses :
        LET filename == GenerateFilenameMCP(fTitle, fDevice)
        IN  fTests' = fTests \cup
                (IF r1 # "fail" THEN {FileTest("mcp", "primary", r1, filename)}
                 ELSE IF r2 # "fail" THEN {FileTest("mcp", "fallback", r2, filename)}
                 ELSE {})
    /\ UNCHANGED <<fTitle, fDevice>>
    /\ UNCHANGED notFile

(***************************************************************************)
(* The file write loop of generateTests                                    *)
(***************************************************************************)
MaxBatchTitleLen == 2

\* the batch Stage C returns: one PlaywrightTest per scenario, in batch order,
\* its filename from generateFilename, its content the scenario's own
BatchTests(titles, device) ==
    [i \in 1..Len(titles) |->
        [filename |-> GenerateFilenameMCP(titles[i], device), content |-> i]]

\* fs.writeFileSync(filePath, test.content): creates the file or replaces what it holds
WriteFileSync(disk, test) == {f \in disk : f.filename # test.filename} \cup {test}

\* const playwrightTests = await this.agentC.generatePlaywrightTests(validatedScenarios)
BatchGenerate ==
    /\ wNext = 0
    /\ wTests' = BatchTests(wTitles, wDevice)
    /\ wNext' = 1
    /\ UNCHANGED <<wTitles, wDevice, wDisk>>
    /\ UNCHANGED notWrite

\* one turn of: for (const test of playwrightTests) { fs.writeFileSync(...) }
BatchWrite ==
    /\ wNext \in 1..Len(wTests)
    /\ wDisk' = WriteFileSync(wDisk, wTests[wNext])
    /\ wNext' = wNext + 1
    /\ UNCHANGED <<wTitles, wDevice, wTests>>
    /\ UNCHANGED notWrite

(***************************************************************************)
(* AnalysisAgentG: the detectors                                           *)
(***************************************************************************)
\* A source text is a sequence of lines (content.split('\n'), never empty); a
\* line is a sequence of text fragments. Fragments(tok) lists the substrings
\* the detectors look for that the fragment tok contains.
Fragments(tok) ==
    CASE tok = "await " -> {"await"}
      [] tok = "return " -> {"return"}
      [] tok = "page.goto('/')" -> {"page.", "goto(", "."}
      [] tok = "page.getByRole('button')" -> {"page.", "getByRole(", "."}
      [] tok = "test.describe('suite', () => {" -> {"test.describe(", "."}
      [] tok = "import { test, expect } from '@playwright/test'" -> {"import { test, expect } from '@playwright/test'"}
      [] tok = "expect(page).toHaveTitle(/Home/)" -> {"expect(", "."}
      [] OTHER -> {}

\* line.includes(s)
Includes(line, s) == \E i \in 1..Len(line) : s \in Fragments(line[i])

\* content.includes(s), for an s that holds no line break
ContentIncludes(content, s) == \E n \in 1..Len(content) : Includes(content[n], s)

RECURSIVE Flatten(_)
Flatten(seqs) == IF seqs = <<>> THEN <<>> ELSE Head(seqs) \o Flatten(Tail(seqs))

\* content.split(s).length - 1: the occurrences of s in the whole text
Occurrences(content, s) ==
    Len(Flatten([n \in 1..Len(content) |->
            SelectSeq(content[n], LAMBDA tok : s \in Fragments(tok))]))

\* if (cond) issues.push({line, type, severity, ...})
PushIf(cond, lineNum, type, severity) ==
    IF cond THEN <<[line |-> lineNum, type |-> type, severity |-> severity]>> ELSE <<>>

\* analyzePlaywrightAPI: lines.forEach((line, index) => ...)
AnalyzePlaywrightAPI_awaitBefore(content) ==
    Flatten([n \in 1..Len(content) |->
        LET line == content[n]
            firstCall == CHOOSE i \in 1..(Len(line) + 1) :
                            /\ i <= Len(line) => "page." \in Fragments(line[i])
                            /\ \A j \in 1..(i - 1) : "page." \notin Fragments(line[j])
        IN  PushIf(Includes(line, "page.waitForSelector("), n, "deprecated_api", "warning")
            \o PushIf(/\ Includes(line, "page.")
                      /\ ~ Includes(SubSeq(line, 1, firstCall - 1), "await")
                      /\ ~ Includes(line, "return"),
                      n, "missing_await", "error")
            \o PushIf(Includes(line, "page.locator(") /\ Includes(line, "nth("),
                      n, "inefficient_selector", "warning")
            \o PushIf(/\ Includes(line, ".click()")
                      /\ ~ ContentIncludes(content, "try")
                      /\ ~ ContentIncludes(content, "catch"),
                      n, "missing_error_handling", "info")])
AnalyzePlaywrightAPI(content) ==
    Flatten([n \in 1..Len(content) |->
        LET line == content[n]
        IN  PushIf(Includes(line, "page.waitForSelector("), n, "deprecated_api", "warning")
            \o PushIf(/\ Includes(line, "page.")
                      /\ ~ Includes(line, "await")
                      /\ ~ Includes(line, "return"),
                      n, "missing_await", "error")
            \o PushIf(Includes(line, "page.locator(") /\ Includes(line, "nth("),
                      n, "inefficient_selector", "warning")
            \o PushIf(/\ Includes(line, ".click()")
                      /\ ~ ContentIncludes(content, "try")
                      /\ ~ ContentIncludes(content, "catch"),
                      n, "missing_error_handling", "info")])

\* analyzeSelectorQuality
AnalyzeSelectorQuality(content) ==
    Flatten([n \in 1..Len(content) |->
        LET line == content[n]
        IN  PushIf(Includes(line, "css=") \/ Includes(line, "xpath="),
                   n, "brittle_selector", "warning")
            \o PushIf(Includes(line, ".locator(") /\ Includes(line, "."),
                      n, "class_based_selector", "info")
            \o PushIf(Includes(line, "text=") /\ ~ Includes(line, "/i"),
                      n, "case_sensitive_text", "info")
            \o PushIf(\/ Includes(line, "getByRole(")
                      \/ Includes(line, "getByTestId(")
                      \/ Includes(line, "getByLabel("),
                      n, "good_selector", "success")])

\* analyzePerformanceIssues: navigateCount is computed from the whole content
\* inside the loop over the lines
AnalyzePerformanceIssues(content) ==
    Flatten([n \in 1..Len(content) |->
        LET line == content[n]
        IN  PushIf(Includes(line, "waitForTimeout") /\ Includes(line, "5000"),
                   n, "excessive_wait", "warning")
            \o PushIf(Includes(line, "networkidle"), n, "networkidle_usage", "info")
            \o PushIf(Occurrences(content, "goto(") > 1, n, "multiple_navigations", "info")])

\* analyzeMaintainabilityIssues: the per-line checks, then the structure check
AnalyzeMaintainabilityIssues(content) ==
    Flatten([n \in 1..Len(content) |->
        LET line == content[n]
        IN  PushIf(/\ Includes(line, "fill(")
                   /\ (Includes(line, "\"test") \/ Includes(line, "'test")),
                   n, "hardcoded_values", "warning")
            \o PushIf(Includes(line, "expect(") /\ Includes(line, "toBe(") /\ Includes(line, "\""),
                      n, "hardcoded_assertions", "info")])
    \o PushIf(~ ContentIncludes(content, "test.describe("), 1, "missing_describe_block", "info")

\* analyzeBestPractices (test.only's "line" is content.indexOf, a character offset)
AnalyzeBestPractices(content) ==
    PushIf(~ ContentIncludes(content, "import { test, expect } from '@playwright/test'"),
           1, "missing_imports", "error")
    \o PushIf(ContentIncludes(content, "test.only("), 0, "test_only_usage", "warning")
    \o PushIf(Occurrences(content, "expect(") = 0, 1, "no_assertions", "error")

\* analyzeSyntaxErrors: one error per diagnostic the TypeScript compiler reports;
\* diag holds the lines of the diagnostics, in the compiler's order
AnalyzeSyntaxErrors(diag) ==
    [k \in 1..Len(diag) |-> [line |-> diag[k], type |-> "syntax_error", severity |-> "error"]]

(***************************************************************************)
(* AnalysisAgentG: the score and one file's analysis                       *)
(***************************************************************************)
\* Math.max(0, Math.min(100, score))
Clamp_lowerOnly(score) == IF score < 0 THEN 0 ELSE score
Clamp(score) == IF score < 0 THEN 0 ELSE IF score > 100 THEN 100 ELSE score

\* calculateQualityScore
CalculateQualityScore_noBonus(a) ==
    Clamp(100
          - Len(a.syntaxErrors) * 15
          - Len(SelectSeq(a.playwrightApiIssues, LAMBDA i : i.severity = "error")) * 10
          - Len(SelectSeq(a.playwrightApiIssues, LAMBDA i : i.severity = "warning")) * 5
          - Len(SelectSeq(a.selectorQualityIssues, LAMBDA i : i.severity = "warning")) * 3
          - Len(a.performanceIssues) * 2
          - Len(a.maintainabilityIssues) * 2)
CalculateQualityScore(a) ==
    Clamp(100
          - Len(a.syntaxErrors) * 15
          - Len(SelectSeq(a.playwrightApiIssues, LAMBDA i : i.severity = "error")) * 10
          - Len(SelectSeq(a.playwrightApiIssues, LAMBDA i : i.severity = "warning")) * 5
          - Len(SelectSeq(a.selectorQualityIssues, LAMBDA i : i.severity = "warning")) * 3
          - Len(a.performanceIssues) * 2
          - Len(a.maintainabilityIssues) * 2
          + Len(SelectSeq(a.selectorQualityIssues, LAMBDA i : i.type = "good_selector")) * 2)

\* generateLLMRecommendations: no call when the file has no syntax, API or
\* selector entry; the model's lines when the call returns; the fixed
\* checklist when it throws. outcome is what the call would do.
RecommendationCall(a, outcome) ==
    IF Len(a.syntaxErrors) + Len(a.playwrightApiIssues) + Len(a.selectorQualityIssues) = 0
    THEN "none" ELSE outcome
GenerateLLMRecommendations(a, outcome) ==
    CASE RecommendationCall(a, outcome) = "none" -> "looks_good"
      [] RecommendationCall(a, outcome) = "ok" -> "model_lines"
      [] OTHER -> "generic_checklist"

\* analyzeIndividualTest: the six detectors, then the recommendations, then the score
AnalyzeIndividualTest_scoreSkippedOnFailure(content, diag, outcome) ==
    LET lists == [syntaxErrors |-> AnalyzeSyntaxErrors(diag),
                  playwrightApiIssues |-> AnalyzePlaywrightAPI(content),
                  selectorQualityIssues |-> AnalyzeSelectorQuality(content),
                  performanceIssues |-> AnalyzePerformanceIssues(content),
                  maintainabilityIssues |-> AnalyzeMaintainabilityIssues(content),
                  warningsAndBestPractices |-> AnalyzeBestPractices(content)]
    IN  [lists |-> lists,
         call |-> RecommendationCall(lists, outcome),
         recommendedFixes |-> GenerateLLMRecommendations(lists, outcome),
         overallScore |-> IF RecommendationCall(lists, outcome) = "fail" THEN 0
                          ELSE CalculateQualityScore(lists)]
AnalyzeIndividualTest(content, diag, outcome) ==
    LET lists == [syntaxErrors |-> AnalyzeSyntaxErrors(diag),
                  playwrightApiIssues |-> AnalyzePlaywrightAPI(content),
                  selectorQualityIssues |-> AnalyzeSelectorQuality(content),
                  performanceIssues |-> AnalyzePerformanceIssues(content),
                  maintainabilityIssues |-> AnalyzeMaintainabilityIssues(content),
                  warningsAndBestPractices |-> AnalyzeBestPractices(content)]
    IN  [lists |-> lists,
         call |-> RecommendationCall(lists, outcome),
         recommendedFixes |-> GenerateLLMRecommendations(lists, outcome),
         overallScore |-> CalculateQualityScore(lists)]

MaxLines == 4

\* the lines the analysed texts are made of
SourceLines ==
    { <<"import { test, expect } from '@playwright/test'">>,
      <<"test.describe('suite', () => {">>,
      <<"await ", "expect(page).toHaveTitle(/Home/)">>,
      <<"await ", "page.goto('/')">>,
      <<"page.goto('/')">>,
      <<"page.goto('/')", "await ">>,
      <<"return ", "page.goto('/')">>,
      <<"page.getByRole('button')">> }

\* analyzeIndividualTest(test) for the text at hand, the model call ending either way
Analyze ==
    /\ \E o \in {"ok", "fail"} :
          gAnalyses' = gAnalyses \cup {AnalyzeIndividualTest(gContent, gDiag, o)}
    /\ UNCHANGED <<gContent, gDiag>>
    /\ UNCHANGED notAnalysis

(***************************************************************************)
(* AnalysisAgentG: the score as a function of the issue lists              *)
(***************************************************************************)
MaxIssues == 7

\* an analysis with nothing detected
NoIssues ==
    [syntaxErrors |-> <<>>, playwrightApiIssues |-> <<>>, selectorQualityIssues |-> <<>>,
     performanceIssues |-> <<>>, maintainabilityIssues |-> <<>>,
     warningsAndBestPractices |-> <<>>]

\* entries the detectors emit, one of each list and severity
DetectedKinds ==
    { [list |-> "syntaxErrors", type |-> "syntax_error", severity |-> "error"],
      [list |-> "playwrightApiIssues", type |-> "missing_await", severity |-> "error"],
      [list |-> "playwrightApiIssues", type |-> "deprecated_api", severity |-> "warning"],
      [list |-> "playwrightApiIssues", type |-> "missing_error_handling", severity |-> "info"],
      [list |-> "selectorQualityIssues", type |-> "brittle_selector", severity |-> "warning"],
      [list |-> "selectorQualityIssues", type |-> "class_based_selector", severity |-> "info"],
      [list |-> "selectorQualityIssues", type |-> "good_selector", severity |-> "success"],
      [list |-> "performanceIssues", type |-> "excessive_wait", severity |-> "warning"],
      [list |-> "performanceIssues", type |-> "networkidle_usage", severity |-> "info"],
      [list |-> "maintainabilityIssues", type |-> "hardcoded_values", severity |-> "warning"],
      [list |-> "maintainabilityIssues", type |-> "missing_describe_block", severity |-> "info"],
      [list |-> "warningsAndBestPractices", type |-> "missing_imports", severity |-> "error"] }

TotalEntries(a) ==
    Len(a.syntaxErrors) + Len(a.playwrightApiIssues) + Len(a.selectorQualityIssues)
    + Len(a.performanceIssues) + Len(a.maintainabilityIssues)
    + Len(a.warningsAndBestPractices)

\* a text in which the detectors find one more entry, and its score
DetectOneMore ==
    /\ TotalEntries(qLists) < MaxIssues
    /\ \E k \in DetectedKinds :
          qLists' = [qLists EXCEPT ![k.list] =
                        Append(@, [line |-> 1, type |-> k.type, severity |-> k.severity])]
    /\ qScore' = CalculateQualityScore(qLists')
    /\ UNCHANGED notScore

(***************************************************************************)
(* AnalysisAgentG: the report                                              *)
(***************************************************************************)
MaxFiles == 3

\* const priorityOrder = { high: 3, medium: 2, low: 1 }
PriorityOrder(p) == CASE p = "high" -> 3 [] p = "medium" -> 2 [] OTHER -> 1

\* (a, b) => priorityOrder[b.priority] - priorityOrder[a.priority]
ComparePriority_ascending(a, b) == PriorityOrder(a.priority) - PriorityOrder(b.priority)
ComparePriority(a, b) == PriorityOrder(b.priority) - PriorityOrder(a.priority)

\* Array.prototype.sort with that comparator: a stable sort
RECURSIVE InsertSorted(_, _)
InsertSorted(sorted, x) ==
    IF sorted = <<>> \/ ComparePriority(sorted[Len(sorted)], x) <= 0
    THEN Append(sorted, x)
    ELSE Append(InsertSorted(SubSeq(sorted, 1, Len(sorted) - 1), x), sorted[Len(sorted)])
RECURSIVE SortActions(_)
SortActions(actions) ==
    IF actions = <<>> THEN <<>>
    ELSE InsertSorted(SortActions(SubSeq(actions, 1, Len(actions) - 1)), actions[Len(actions)])

\* actions.push({priority, type, filename, line, ...}) for every entry of one list
ActionsOf(result, list, priority, type) ==
    [k \in 1..Len(list) |->
        [priority |-> priority, type |-> type, filename |-> result.filename,
         line |-> list[k].line]]

\* generatePrioritizedActions: three passes over the results, then the sort
GeneratePrioritizedActions(results) ==
    SortActions(
        Flatten([f \in 1..Len(results) |->
            ActionsOf(results[f], results[f].lists.syntaxErrors, "high", "syntax_error")])
        \o Flatten([f \in 1..Len(results) |->
            ActionsOf(results[f],
                      SelectSeq(results[f].lists.playwrightApiIssues,
                                LAMBDA i : i.severity = "error"),
                      "medium", "api_error")])
        \o Flatten([f \in 1..Len(results) |->
            ActionsOf(results[f], results[f].lists.performanceIssues, "low", "performance")]))

RECURSIVE SumOf(_)
SumOf(nums) == IF nums = <<>> THEN 0 ELSE Head(nums) + SumOf(Tail(nums))

\* Math.round(sum / n): NaN for 0 / 0, else the nearest integer, a half rounded up
MathRound_down(sum, n) ==
    IF n = 0 THEN [nan |-> TRUE, val |-> 0] ELSE [nan |-> FALSE, val |-> sum \div n]
MathRound(sum, n) ==
    IF n = 0 THEN [nan |-> TRUE, val |-> 0]
    ELSE [nan |-> FALSE, val |-> (2 * sum + n) \div (2 * n)]

\* generateOverallRecommendations (NaN < 70 is false)
GenerateOverallRecommendations(results) ==
    (IF SumOf([f \in 1..Len(results) |-> Len(results[f].lists.syntaxErrors)]) > 0
     THEN <<"CRITICAL">> ELSE <<>>)
    \o (IF SumOf([f \in 1..Len(results) |-> Len(results[f].lists.playwrightApiIssues)]) > 5
        THEN <<"HIGH">> ELSE <<>>)
    \o (IF /\ results # <<>>
           /\ SumOf([f \in 1..Len(results) |-> results[f].overallScore]) < 70 * Len(results)
        THEN <<"MEDIUM">> ELSE <<>>)
    \o <<"BEST PRACTICE", "PROCESS", "GOAL">>

\* generateComprehensiveReport, were totalIssues to count all six lists
GenerateComprehensiveReport_sixLists(results) ==
    [summary |->
        [totalTests |-> Len(results),
         totalIssues |->
            SumOf([f \in 1..Len(results) |->
                Len(results[f].lists.syntaxErrors) + Len(results[f].lists.playwrightApiIssues)
                + Len(results[f].lists.selectorQualityIssues)
                + Len(results[f].lists.performanceIssues)
                + Len(results[f].lists.maintainabilityIssues)
                + Len(results[f].lists.warningsAndBestPractices)]),
         averageQualityScore |->
            MathRound(SumOf([f \in 1..Len(results) |-> results[f].overallScore]), Len(results)),
         testsNeedingAttention |-> Len(SelectSeq(results, LAMBDA r : r.overallScore < 70)),
         readyForExecution |->
            Len(SelectSeq(results, LAMBDA r : Len(r.lists.syntaxErrors) = 0))],
     testAnalyses |-> results,
     prioritizedActions |-> GeneratePrioritizedActions(results),
     recommendations |-> GenerateOverallRecommendations(results)]

\* generateComprehensiveReport
GenerateComprehensiveReport(results) ==
    [summary |->
        [totalTests |-> Len(results),
         totalIssues |->
            SumOf([f \in 1..Len(results) |->
                Len(results[f].lists.syntaxErrors) + Len(results[f].lists.playwrightApiIssues)
                + Len(results[f].lists.selectorQualityIssues)
                + Len(results[f].lists.performanceIssues)
                + Len(results[f].lists.maintainabilityIssues)]),
         averageQualityScore |->
            MathRound(SumOf([f \in 1..Len(results) |-> results[f].overallScore]), Len(results)),
         testsNeedingAttention |-> Len(SelectSeq(results, LAMBDA r : r.overallScore < 70)),
         readyForExecution |->
            Len(SelectSeq(results, LAMBDA r : Len(r.lists.syntaxErrors) = 0))],
     testAnalyses |-> results,
     prioritizedActions |-> GeneratePrioritizedActions(results),
     recommendations |-> GenerateOverallRecommendations(results)]

\* the files of the analysed batches: a text and the compiler's diagnostics for it
ReportInputs ==
    { [content |-> << <<"import { test, expect } from '@playwright/test'">>,
                      <<"test.describe('suite', () => {">>,
                      <<"await ", "expect(page).toHaveTitle(/Home/)">> >>,
       diag |-> <<>>],
      [content |-> << <<"import { test, expect } from '@playwright/test'">>,
                      <<"test.describe('suite', () => {">>,
                      <<"await ", "expect(page).toHaveTitle(/Home/)">> >>,
       diag |-> <<1>>],
      [content |-> << <<"page.goto('/')">>, <<"page.goto('/')">> >>, diag |-> <<>>],
      [content |-> << <<"page.goto('/')">> >>, diag |-> <<2, 1, 1>>],
      [content |-> << <<"await ", "page.getByRole('button')">> >>, diag |-> <<>>] }

\* tests.map(test => this.analyzeIndividualTest(test)): the analysis of the next file
AnalyzeFile ==
    /\ hReport = {}
    /\ Len(hResults) < MaxFiles
    /\ \E inp \in ReportInputs, o \in {"ok", "fail"} :
          hResults' = Append(hResults,
              [filename |-> Len(hResults) + 1]
              @@ AnalyzeIndividualTest(inp.content, inp.diag, o))
    /\ UNCHANGED hReport
    /\ UNCHANGED notReport

\* const report = await this.generateComprehensiveReport(tests, scenarios, analysisResults)
GenerateReport ==
    /\ hReport = {}
    /\ hReport' = {GenerateComprehensiveReport(hResults)}
    /\ UNCHANGED hResults
    /\ UNCHANGED notReport

(***************************************************************************)
(* RAGRetriever                                                            *)
(***************************************************************************)
MaxWords == 2

\* String.prototype.includes: sub occurs in str
IsSubstring(sub, str) ==
    \E i \in 0..(Len(str) - Len(sub)) : SubSeq(str, i + 1, i + Len(sub)) = sub

\* .split(/\s+/) after .replace(/[^\w\s]/g, ' '): the maximal runs of word
\* characters, in order, with an empty string where the text starts or ends with
\* a separator
SplitWords(str) ==
    LET n == Len(str)
        isSep(i) == str[i] \notin LowerChars \cup DigitChars \cup {"_"}
        starts == {i \in 1..n : ~ isSep(i) /\ (i = 1 \/ isSep(i - 1))}
        ends == {i \in 1..n : ~ isSep(i) /\ (i = n \/ isSep(i + 1))}
        nth(S, k) == CHOOSE i \in S : Cardinality({j \in S : j < i}) = k - 1
        words == [k \in 1..Cardinality(starts) |-> SubSeq(str, nth(starts, k), nth(ends, k))]
    IN  (IF n = 0 \/ isSep(1) THEN << <<>> >> ELSE <<>>)
            \o words
            \o (IF n > 0 /\ isSep(n) THEN << <<>> >> ELSE <<>>)

\* extractKeywords
ExtractKeywords(text) ==
    LET commonWords ==
            { <<"t", "h", "e">>, <<"a", "n", "d">>, <<"b", "u", "t">>, <<"f", "o", "r">>,
              <<"w", "i", "t", "h">>, <<"u", "s", "e", "r">>,
              <<"s", "h", "o", "u", "l", "d">>, <<"c", "a", "n">>, <<"w", "i", "l", "l">> }
    IN  SelectSeq(SplitWords(ToLowerCase(text)),
                  LAMBDA word : Len(word) > 2 /\ word \notin commonWords)

\* the knowledge base: Object.entries of kb.selectors and of kb.endpoints, category
\* by category and name by name, in the files' order
KbEntries ==
    << [category |-> <<"f", "o", "r", "m", "s">>, name |-> <<"s", "i", "g", "n", "_", "i", "n">>],
       [category |-> <<"f", "o", "r", "m", "s">>, name |-> <<"h", "o", "m", "e">>],
       [category |-> <<"s", "i", "t", "e">>, name |-> <<"h", "o", "m", "e">>] >>

\* name.includes(k) || category.includes(k) || k.includes(name) || k.includes(category),
\* k being keyword.toLowerCase()
KeywordMatches(keyword, entry) ==
    \/ IsSubstring(ToLowerCase(keyword), entry.name)
    \/ IsSubstring(ToLowerCase(keyword), entry.category)
    \/ IsSubstring(entry.name, ToLowerCase(keyword))
    \/ IsSubstring(entry.category, ToLowerCase(keyword))

\* findRelevantSelectors: relevant[`${category}.${name}`] = selector, the keys of the result
FindRelevantSelectors(keywords) ==
    { KbEntries[e] : e \in { e \in 1..Len(KbEntries) :
                                \E k \in 1..Len(keywords) : KeywordMatches(keywords[k], KbEntries[e]) } }

\* findRelevantEndpoints: relevant.push(...) keyword by keyword, entry by entry
FindRelevantEndpoints(keywords) ==
    Flatten([k \in 1..Len(keywords) |->
        SelectSeq(KbEntries, LAMBDA entry : KeywordMatches(keywords[k], entry))])

\* the words the retrieved texts are made of
TextWords ==
    { <<"s", "i", "g", "n", "i", "n">>,
      <<"x", "y", "z">>,
      <<"S", "i", "g", "n", "-", "i", "n", "!">>,
      <<"f", "o", "r", "m">>,
      <<"h", "o", "m", "e", "s", "i", "t", "e">>,
      <<"t", "h", "e">>,
      <<"s", "i", "g", "n", "_", "i", "n">> }

\* `${title} ${description} ${steps.join(' ')}`
RECURSIVE JoinWords(_)
JoinWords(words) ==
    IF words = <<>> THEN <<>>
    ELSE IF Len(words) = 1 THEN words[1]
    ELSE words[1] \o <<" ">> \o JoinWords(Tail(words))

\* performFallbackValidation: the keywords of the text, then both look-ups
Retrieve ==
    /\ kKeywords' = ExtractKeywords(kText)
    /\ kSelectors' = FindRelevantSelectors(ExtractKeywords(kText))
    /\ kEndpoints' = FindRelevantEndpoints(ExtractKeywords(kText))
    /\ UNCHANGED kText
    /\ UNCHANGED notKb

(***************************************************************************)
(* LangChainClient: construction (langchain-client.ts 17..96)              *)
(***************************************************************************)
MaxCalls == 2

\* the providers the two switches know
Providers == {"openai", "anthropic", "ollama"}

\* what the caller or the environment may name as the provider ("" = none)
ProviderNames == Providers \cup {"", "azure"}

\* a || b on strings: the empty string is falsy
OrElse(a, b) == IF a # "" THEN a ELSE b

\* getDefaultModel: a model name per known provider, a throw for any other
GetDefaultModel(provider) ==
    IF provider \in Providers THEN [raised |-> FALSE, value |-> "default"]
    ELSE [raised |-> TRUE, value |-> ""]

\* getApiKey: the environment's key of the provider; none for ollama or others
GetApiKey(provider, env) ==
    CASE provider = "openai" -> env.OPENAI_API_KEY
      [] provider = "anthropic" -> env.ANTHROPIC_API_KEY
      [] OTHER -> ""

\* createConfig: getDefaultModel is evaluated only when config.model is falsy
CreateConfig(config, env) ==
    LET provider == OrElse(config.provider, OrElse(env.LLM_PROVIDER, "openai"))
        model == IF config.model # "" THEN [raised |-> FALSE, value |-> config.model]
                 ELSE GetDefaultModel(provider)
    IN  [raised |-> model.raised,
         provider |-> provider,
         model |-> model.value,
         apiKey |-> OrElse(config.apiKey, GetApiKey(provider, env))]

\* initializeModel without the credential test of the anthropic case
InitializeModel_anthropicUnchecked(cfg) ==
    CASE cfg.provider = "openai" -> IF cfg.apiKey = "" THEN "raised" ELSE "constructed"
      [] cfg.provider = "anthropic" -> "constructed"
      [] cfg.provider = "ollama" -> "constructed"
      [] OTHER -> "raised"

\* initializeModel: the switch on this.config.provider
InitializeModel(cfg) ==
    CASE cfg.provider = "openai" -> IF cfg.apiKey = "" THEN "raised" ELSE "constructed"
      [] cfg.provider = "anthropic" -> IF cfg.apiKey = "" THEN "raised" ELSE "constructed"
      [] cfg.provider = "ollama" -> "constructed"
      [] OTHER -> "raised"

\* new LangChainClient(config): createConfig, then initializeModel
Construct ==
    /\ lClient = "none"
    /\ LET cfg == CreateConfig(lConfig, lEnv)
       IN  lClient' = IF cfg.raised THEN "raised" ELSE InitializeModel(cfg)
    /\ UNCHANGED <<lConfig, lEnv, lCalls>>
    /\ UNCHANGED notClient

\* generateResponse on the constructed client: this.model.invoke(messages)
GenerateResponse ==
    /\ lClient = "constructed"
    /\ lCalls < MaxCalls
    /\ lCalls' = lCalls + 1
    /\ UNCHANGED <<lConfig, lEnv, lClient>>
    /\ UNCHANGED notClient

ClientNext == Construct \/ GenerateResponse

(***************************************************************************)
(* AnalysisAgentG.analyzeSyntaxErrors, with its catch (part_005 92..285)   *)
(***************************************************************************)
MaxDiags == 2

\* the diagnostics of the compiler: with or without a file, zero-based line,
\* and whether shouldIgnoreDiagnostic filters the message
DiagnosticKinds ==
    { [file |-> TRUE, line |-> 0, ignore |-> FALSE],
      [file |-> TRUE, line |-> 1, ignore |-> FALSE],
      [file |-> TRUE, line |-> 0, ignore |-> TRUE],
      [file |-> FALSE, line |-> 0, ignore |-> FALSE] }

\* the error pushed for a diagnostic: line + 1, severity 'error'
SyntaxErrorOf(d) == [line |-> d.line + 1, type |-> "syntax_error", severity |-> "error"]

\* the error of the catch block: line 1, severity 'error', code -1
CompilationFailed == [line |-> 1, type |-> "compilation_failed", severity |-> "error"]

\* the catch block, were it to start from an empty list
CatchBlock_fresh(errors) == <<CompilationFailed>>

\* the catch block: errors.push({line: 1, ...}) onto the list built so far
CatchBlock(errors) == Append(errors, CompilationFailed)

\* the try block up to and including ts.getPreEmitDiagnostics: it completes,
\* or one of its calls throws and the catch block runs
SyntaxCompile ==
    /\ xPc = "try"
    /\ \/ /\ xPc' = "forEach"
          /\ UNCHANGED <<xErrors, xCaught>>
       \/ /\ xPc' = "returned"
          /\ xErrors' = CatchBlock(xErrors)
          /\ xCaught' = TRUE
    /\ UNCHANGED <<xDiag, xNext>>
    /\ UNCHANGED notSyntax

\* one call of the forEach callback: the diagnostic is skipped (no file, or
\* ignored), or pushed, or a call of the callback throws and the catch block runs
SyntaxDiagnostic ==
    /\ xPc = "forEach"
    /\ xNext <= Len(xDiag)
    /\ LET d == xDiag[xNext]
       IN  \/ /\ xErrors' = IF d.file /\ ~ d.ignore THEN Append(xErrors, SyntaxErrorOf(d))
                            ELSE xErrors
              /\ xNext' = xNext + 1
              /\ UNCHANGED <<xPc, xCaught>>
           \/ /\ d.file
              /\ xErrors' = CatchBlock(xErrors)
              /\ xPc' = "returned"
              /\ xCaught' = TRUE
              /\ UNCHANGED xNext
    /\ UNCHANGED xDiag
    /\ UNCHANGED notSyntax

\* the forEach is over: return errors
SyntaxReturn ==
    /\ xPc = "forEach"
    /\ xNext > Len(xDiag)
    /\ xPc' = "returned"
    /\ UNCHANGED <<xDiag, xNext, xErrors, xCaught>>
    /\ UNCHANGED notSyntax

SyntaxNext == SyntaxCompile \/ SyntaxDiagnostic \/ SyntaxReturn

(***************************************************************************)
(* The deterministic path with its texts: Stage A's fallback scenarios,    *)
(* Stage B's fallback validation, Stage C's filenames, the write loop      *)
(***************************************************************************)
MaxStoryWords == 4

\* a string as the sequence of its characters
Chars(s) == [i \in 1..Len(s) |-> SubSeq(s, i, i)]

\* description.split(' ')
RECURSIVE SplitOnSpace(_, _)
SplitOnSpace(str, word) ==
    IF str = <<>> THEN <<word>>
    ELSE IF Head(str) = " " THEN <<word>> \o SplitOnSpace(Tail(str), <<>>)
    ELSE SplitOnSpace(Tail(str), Append(word, Head(str)))

\* extractTitle: the words holding an action word, else the first three words
ExtractTitle(description) ==
    LET actions == {Chars("sign"), Chars("login"), Chars("request"), Chars("submit"),
                    Chars("create"), Chars("update"), Chars("delete"), Chars("view")}
        words == SplitOnSpace(description, <<>>)
        actionWords == SelectSeq(words, LAMBDA word :
                            \E action \in actions : IsSubstring(action, ToLowerCase(word)))
    IN  IF Len(actionWords) > 0 THEN JoinWords(actionWords)
        ELSE JoinWords(SubSeq(words, 1, IF Len(words) < 3 THEN Len(words) ELSE 3))

\* the steps pushed by the login / sign in branch of generatePositiveSteps
SignInSteps ==
    << Chars("Enter valid email/username"), Chars("Enter correct password"),
       Chars("Click login button"), Chars("Verify successful authentication") >>

\* generatePositiveSteps
GeneratePositiveSteps(description) ==
    LET d == ToLowerCase(description)
    IN  <<Chars("Navigate to the application")>> \o
        (IF IsSubstring(Chars("sign up"), d) \/ IsSubstring(Chars("register"), d)
         THEN << Chars("Click on sign up/register link"),
                 Chars("Fill in valid user information"),
                 Chars("Submit the registration form"),
                 Chars("Verify email confirmation if required") >>
         ELSE IF IsSubstring(Chars("login"), d) \/ IsSubstring(Chars("sign in"), d)
         THEN SignInSteps
         ELSE IF IsSubstring(Chars("credit report"), d)
         THEN << Chars("Log in to user account"),
                 Chars("Navigate to credit report section"),
                 Chars("Click request credit report button"),
                 Chars("Complete any required verification"),
                 Chars("Wait for report generation"),
                 Chars("Download or view the report") >>
         ELSE << Chars("Perform the primary action described"),
                 Chars("Complete any required form fields"),
                 Chars("Submit the request"),
                 Chars("Verify successful completion") >>)

\* generateNegativeSteps
GenerateNegativeSteps ==
    << Chars("Navigate to the application"),
       Chars("Attempt to perform action with invalid/missing data"),
       Chars("Submit the form/request"),
       Chars("Observe error handling and validation messages"),
       Chars("Verify system prevents invalid operations") >>

\* generateEdgeCaseSteps
GenerateEdgeCaseSteps ==
    << Chars("Navigate to the application"),
       Chars("Begin the intended action"),
       Chars("Simulate network interruption or slow connection"),
       Chars("Attempt to complete the action"),
       Chars("Verify system handles the error gracefully"),
       Chars("Test recovery mechanisms") >>

TextScenario(title, type, description, steps, device) ==
    [title |-> title, type |-> type, description |-> description, steps |-> steps,
     device |-> device]

\* generateFallbackScenarios with the last title a copy of the first
FallbackScenarios_twoHappyPaths(description) ==
    LET baseTitle == ExtractTitle(description)
    IN  << TextScenario(baseTitle \o Chars(" - Happy Path"), "positive",
               Chars("User successfully completes: ") \o description,
               GeneratePositiveSteps(description), "desktop"),
           TextScenario(baseTitle \o Chars(" - Invalid Input"), "negative",
               Chars("User attempts ") \o description \o Chars(" with invalid data"),
               GenerateNegativeSteps, "desktop"),
           TextScenario(baseTitle \o Chars(" - Network Error"), "edge",
               Chars("User attempts ") \o description \o Chars(" during network issues"),
               GenerateEdgeCaseSteps, "desktop"),
           TextScenario(baseTitle \o Chars(" - Happy Path"), "cross-device",
               Chars("User completes ") \o description \o Chars(" on mobile device"),
               GeneratePositiveSteps(description), "desktop") >>

\* generateFallbackScenarios, titles, descriptions and steps as texts
FallbackScenarios(description) ==
    LET baseTitle == ExtractTitle(description)
    IN  << TextScenario(baseTitle \o Chars(" - Happy Path"), "positive",
               Chars("User successfully completes: ") \o description,
               GeneratePositiveSteps(description), "desktop"),
           TextScenario(baseTitle \o Chars(" - Invalid Input"), "negative",
               Chars("User attempts ") \o description \o Chars(" with invalid data"),
               GenerateNegativeSteps, "desktop"),
           TextScenario(baseTitle \o Chars(" - Network Error"), "edge",
               Chars("User attempts ") \o description \o Chars(" during network issues"),
               GenerateEdgeCaseSteps, "desktop"),
           TextScenario(baseTitle \o Chars(" - Mobile Experience"), "cross-device",
               Chars("User completes ") \o description \o Chars(" on mobile device"),
               GeneratePositiveSteps(description), "mobile") >>

\* findRelevantSelectors over a given knowledge base: the keys of the result
RelevantSelectors(kb, keywords) ==
    { entry \in kb : \E k \in 1..Len(keywords) : KeywordMatches(keywords[k], entry) }

\* performFallbackValidation: the scenario with the selectors of its keywords
FallbackValidation(kb, scenario) ==
    LET text == scenario.title \o <<" ">> \o scenario.description \o <<" ">>
                    \o JoinWords(scenario.steps)
    IN  [scenario |-> scenario, selectors |-> RelevantSelectors(kb, ExtractKeywords(text))]

\* generatePlaywrightTests: one PlaywrightTest per validated scenario, in order
StoryTests(validatedScenarios) ==
    [i \in 1..Len(validatedScenarios) |->
        [filename |-> GenerateFilenameMCP(validatedScenarios[i].scenario.title,
                                          validatedScenarios[i].scenario.device),
         content |-> i]]

\* entries a knowledge base may hold: locators of a sign_in category and others
SignInKbEntries ==
    { [category |-> Chars("sign_in"), name |-> Chars("email_input")],
      [category |-> Chars("sign_in"), name |-> Chars("password_input")],
      [category |-> Chars("sign_in"), name |-> Chars("submit_button")],
      [category |-> Chars("navigation"), name |-> Chars("home_link")],
      [category |-> Chars("forms"), name |-> Chars("sign_in")] }

\* the words the drawn stories are made of (the empty word: two spaces in a row)
StoryWords == {Chars("User"), Chars("Sign"), Chars("up!"), <<>>}

\* expandUserStory with the model unavailable: the catch block
StoryExpand ==
    /\ tPc = "A"
    /\ tScenarios' = FallbackScenarios(tStory)
    /\ tPc' = "B"
    /\ UNCHANGED <<tStory, tKb, tValidated, tTests, tDisk, tWritten>>
    /\ UNCHANGED notStory

\* validateScenario with the model unavailable, for the next scenario
StoryValidate ==
    /\ tPc = "B"
    /\ Len(tValidated) < Len(tScenarios)
    /\ tValidated' = Append(tValidated,
                            FallbackValidation(tKb, tScenarios[Len(tValidated) + 1]))
    /\ tPc' = IF Len(tValidated) + 1 = Len(tScenarios) THEN "C" ELSE "B"
    /\ UNCHANGED <<tStory, tKb, tScenarios, tTests, tDisk, tWritten>>
    /\ UNCHANGED notStory

\* const playwrightTests = await this.agentC.generatePlaywrightTests(validatedScenarios)
StoryGenerate ==
    /\ tPc = "C"
    /\ tTests' = StoryTests(tValidated)
    /\ tPc' = "write"
    /\ UNCHANGED <<tStory, tKb, tScenarios, tValidated, tDisk, tWritten>>
    /\ UNCHANGED notStory

\* one turn of: for (const test of playwrightTests) { fs.writeFileSync(...) }
StoryWrite ==
    /\ tPc = "write"
    /\ LET test == tTests[Len(tWritten) + 1]
       IN  /\ tDisk' = WriteFileSync(tDisk, test)
           /\ tWritten' = Append(tWritten, test.filename)
    /\ tPc' = IF Len(tWritten) + 1 = Len(tTests) THEN "done" ELSE "write"
    /\ UNCHANGED <<tStory, tKb, tScenarios, tValidated, tTests>>
    /\ UNCHANGED notStory

StoryNext == StoryExpand \/ StoryValidate \/ StoryGenerate \/ StoryWrite

(***************************************************************************)
(* LangChainAgentC: the template of the fallback (langchain-agent-c.ts     *)
(* 93..182)                                                                *)
(***************************************************************************)
MaxSteps == 2

\* step.toLowerCase().includes(s)
StepIncludes(step, s) == IsSubstring(Chars(s), ToLowerCase(step))

\* generateStepCode with the click test made first
GenerateStepCode_clickFirst(step) ==
    [step |-> step,
     category |->
        IF StepIncludes(step, "click") \/ StepIncludes(step, "button") THEN "click"
        ELSE IF StepIncludes(step, "navigate") THEN "navigate"
        ELSE IF StepIncludes(step, "fill") \/ StepIncludes(step, "enter") THEN "fill"
        ELSE IF StepIncludes(step, "wait") \/ StepIncludes(step, "load") THEN "wait"
        ELSE IF StepIncludes(step, "verify") \/ StepIncludes(step, "check") THEN "verify"
        ELSE "unknown"]

\* generateStepCode: the step's comment and the code of the first test that holds
GenerateStepCode(step) ==
    [step |-> step,
     category |->
        IF StepIncludes(step, "navigate") THEN "navigate"
        ELSE IF StepIncludes(step, "click") \/ StepIncludes(step, "button") THEN "click"
        ELSE IF StepIncludes(step, "fill") \/ StepIncludes(step, "enter") THEN "fill"
        ELSE IF StepIncludes(step, "wait") \/ StepIncludes(step, "load") THEN "wait"
        ELSE IF StepIncludes(step, "verify") \/ StepIncludes(step, "check") THEN "verify"
        ELSE "unknown"]

\* generateOutcomeVerification
GenerateOutcomeVerification(type, expected_outcome) ==
    IF type = "negative" THEN "error_visible"
    ELSE IF IsSubstring(Chars("success"), ToLowerCase(expected_outcome)) THEN "success_visible"
    ELSE "todo_url"

\* generateTestBody: the step blocks in the order of scenario.steps, then the
\* outcome verification
GenerateTestBody(steps, type, expected_outcome) ==
    [blocks |-> [i \in 1..Len(steps) |-> GenerateStepCode(steps[i])],
     outcome |-> GenerateOutcomeVerification(type, expected_outcome)]

\* the step texts of the rendered scenarios
StepTexts ==
    { Chars("Navigate to the application"),
      Chars("Click the link to navigate home"),
      Chars("Enter correct password"),
      Chars("Enter the code and click the button"),
      Chars("Download or view the report"),
      Chars("Wait, then verify the total"),
      Chars("Check the balance"),
      Chars("Hover over the menu") }

\* generateFallbackTestContent (the catch block of generateSingleTest)
GenerateFallbackTestContent ==
    /\ uBody = {}
    /\ uBody' = {GenerateTestBody(uSteps, uType, uOutcome)}
    /\ UNCHANGED <<uSteps, uType, uOutcome>>
    /\ UNCHANGED notRender

(***************************************************************************)
(* MCPEnhancedAgentC.generatePlaywrightTests and the MCP client's          *)
(* initialize / disconnect                                                 *)
(***************************************************************************)
MaxScenarios == 3

Event(op, i) == [op |-> op, i |-> i]

\* await this.mcpClient.initialize(): it connects, or it is disabled or fails to
\* connect (caught inside), and returns either way
McpInitialize ==
    /\ mPc = "initialize"
    /\ mConnected' \in BOOLEAN
    /\ mLog' = Append(mLog, Event("initialize", 0))
    /\ mPc' = "map"
    /\ UNCHANGED mUnits
    /\ UNCHANGED notMcp

\* validatedScenarios.map(scenario => this.generateSingleTest(scenario)): every
\* generation starts, in order, and runs up to its first await
McpMap ==
    /\ mPc = "map"
    /\ mUnits' = [i \in 1..Len(mUnits) |-> "pending"]
    /\ mLog' = mLog \o [i \in 1..Len(mUnits) |-> Event("start", i)]
    /\ mPc' = "await"
    /\ UNCHANGED mConnected
    /\ UNCHANGED notMcp

\* one generateSingleTest settles: it returns a test (try block, or catch block),
\* or the catch block's own model call fails and the promise rejects. It runs
\* on whether or not Promise.all has already rejected.
McpSettle ==
    /\ \E i \in 1..Len(mUnits) :
        /\ mUnits[i] = "pending"
        /\ \E outcome \in {"fulfilled", "rejected"} :
              mUnits' = [mUnits EXCEPT ![i] = outcome]
        /\ mLog' = Append(mLog, Event("end", i))
    /\ UNCHANGED <<mPc, mConnected>>
    /\ UNCHANGED notMcp

\* await Promise.all(...) resumes: with every test once all have fulfilled
McpAwaitFulfilled ==
    /\ mPc = "await"
    /\ \A i \in 1..Len(mUnits) : mUnits[i] = "fulfilled"
    /\ mPc' = "disconnect"
    /\ UNCHANGED <<mUnits, mConnected, mLog>>
    /\ UNCHANGED notMcp

\* await Promise.all(...) throws as soon as one generation has rejected:
\* generatePlaywrightTests has no catch and no finally, the stage fails
McpAwaitRejected ==
    /\ mPc = "await"
    /\ \E i \in 1..Len(mUnits) : mUnits[i] = "rejected"
    /\ mPc' = "failed"
    /\ UNCHANGED <<mUnits, mConnected, mLog>>
    /\ UNCHANGED notMcp

\* await this.mcpClient.disconnect(); return tests
McpDisconnect ==
    /\ mPc = "disconnect"
    /\ mConnected' = FALSE
    /\ mLog' = Append(mLog, Event("disconnect", 0))
    /\ mPc' = "returned"
    /\ UNCHANGED mUnits
    /\ UNCHANGED notMcp

McpNext ==
    \/ McpInitialize \/ McpMap \/ McpSettle
    \/ McpAwaitFulfilled \/ McpAwaitRejected \/ McpDisconnect

(***************************************************************************)
(* Specifications                                                          *)
(***************************************************************************)
RetryNext == AttemptOk \/ AttemptFail \/ Backoff \/ RetryRaise
StageNext == StageExpand \/ StageValidate
Next ==
    \/ CallA \/ ReplyA
    \/ StartB \/ ReplyB \/ JoinB
    \/ StartC \/ ReplyC \/ ReplyCatchC \/ RejectC \/ JoinC
    \/ WriteFiles
    \/ StartG \/ ReplyG \/ JoinG
    \/ Summary

\* one call of generateWithRetry, its arguments and configuration drawn
InitRetry ==
    /\ rpc = "loop"
    /\ argMaxRetries \in 0..MaxAttempts
    /\ cfgMaxRetries \in 0..MaxAttempts
    /\ attempt = 1
    /\ lastError = NoError
    /\ rlog = <<>>
    /\ rresult = NoResult
    /\ sPc = "init"
    /\ sStory = "generic"
    /\ sResp = AResp("fail", <<>>)
    /\ sScenarios = <<>>
    /\ sValidated = <<>>
    /\ pc = "done"
    /\ userStory = "signin"
    /\ aCalls = 0
    /\ aOut = [path |-> "none", invocationFailed |-> FALSE]
    /\ scenarios = <<>>
    /\ bUnits = <<>>
    /\ validated = <<>>
    /\ cUnits = <<>>
    /\ tests = <<>>
    /\ writtenFiles = <<>>
    /\ gUnits = <<>>
    /\ report = NoReport
    /\ fTitle = <<>>
    /\ fDevice = ""
    /\ fTests = {}
    /\ wTitles = <<>>
    /\ wDevice = ""
    /\ wTests = <<>>
    /\ wNext = 0
    /\ wDisk = {}
    /\ gContent = <<<<>>>>
    /\ gDiag = <<>>
    /\ gAnalyses = {}
    /\ qLists = NoIssues
    /\ qScore = 100
    /\ hResults = <<>>
    /\ hReport = {}
    /\ kText = <<>>
    /\ kKeywords = <<>>
    /\ kSelectors = {}
    /\ kEndpoints = <<>>
    /\ lConfig = [provider |-> "", model |-> "", apiKey |-> ""]
    /\ lEnv = [LLM_PROVIDER |-> "", OPENAI_API_KEY |-> "", ANTHROPIC_API_KEY |-> ""]
    /\ lClient = "none"
    /\ lCalls = 0
    /\ xDiag = <<>>
    /\ xPc = "returned"
    /\ xNext = 1
    /\ xErrors = <<>>
    /\ xCaught = FALSE
    /\ tStory = <<>>
    /\ tKb = {}
    /\ tPc = "done"
    /\ tScenarios = <<>>
    /\ tValidated = <<>>
    /\ tTests = <<>>
    /\ tDisk = {}
    /\ tWritten = <<>>
    /\ uSteps = <<>>
    /\ uType = "positive"
    /\ uOutcome = <<>>
    /\ uBody = {}
    /\ mPc = "returned"
    /\ mUnits = <<>>
    /\ mConnected = FALSE
    /\ mLog = <<>>

\* one run of Stage A then Stage B, the story and the model's outcome drawn
InitStages ==
    /\ rpc = "returned"
    /\ argMaxRetries = 0
    /\ cfgMaxRetries = 0
    /\ attempt = 1
    /\ lastError = NoError
    /\ rlog = <<>>
    /\ rresult = NoResult
    /\ sPc = "init"
    /\ sStory \in StoryKinds
    /\ sResp \in AResponses(ModelElems, MaxModelLen)
    /\ sScenarios = <<>>
    /\ sValidated = <<>>
    /\ pc = "done"
    /\ userStory = "signin"
    /\ aCalls = 0
    /\ aOut = [path |-> "none", invocationFailed |-> FALSE]
    /\ scenarios = <<>>
    /\ bUnits = <<>>
    /\ validated = <<>>
    /\ cUnits = <<>>
    /\ tests = <<>>
    /\ writtenFiles = <<>>
    /\ gUnits = <<>>
    /\ report = NoReport
    /\ fTitle = <<>>
    /\ fDevice = ""
    /\ fTests = {}
    /\ wTitles = <<>>
    /\ wDevice = ""
    /\ wTests = <<>>
    /\ wNext = 0
    /\ wDisk = {}
    /\ gContent = <<<<>>>>
    /\ gDiag = <<>>
    /\ gAnalyses = {}
    /\ qLists = NoIssues
    /\ qScore = 100
    /\ hResults = <<>>
    /\ hReport = {}
    /\ kText = <<>>
    /\ kKeywords = <<>>
    /\ kSelectors = {}
    /\ kEndpoints = <<>>
    /\ lConfig = [provider |-> "", model |-> "", apiKey |-> ""]
    /\ lEnv = [LLM_PROVIDER |-> "", OPENAI_API_KEY |-> "", ANTHROPIC_API_KEY |-> ""]
    /\ lClient = "none"
    /\ lCalls = 0
    /\ xDiag = <<>>
    /\ xPc = "returned"
    /\ xNext = 1
    /\ xErrors = <<>>
    /\ xCaught = FALSE
    /\ tStory = <<>>
    /\ tKb = {}
    /\ tPc = "done"
    /\ tScenarios = <<>>
    /\ tValidated = <<>>
    /\ tTests = <<>>
    /\ tDisk = {}
    /\ tWritten = <<>>
    /\ uSteps = <<>>
    /\ uType = "positive"
    /\ uOutcome = <<>>
    /\ uBody = {}
    /\ mPc = "returned"
    /\ mUnits = <<>>
    /\ mConnected = FALSE
    /\ mLog = <<>>

\* one run of generateTests
Init ==
    /\ rpc = "returned"
    /\ argMaxRetries = 0
    /\ cfgMaxRetries = 0
    /\ attempt = 1
    /\ lastError = NoError
    /\ rlog = <<>>
    /\ rresult = NoResult
    /\ sPc = "init"
    /\ sStory = "generic"
    /\ sResp = AResp("fail", <<>>)
    /\ sScenarios = <<>>
    /\ sValidated = <<>>
    /\ pc = "start"
    /\ userStory = "signin"
    /\ aCalls = 0
    /\ aOut = [path |-> "none", invocationFailed |-> FALSE]
    /\ scenarios = <<>>
    /\ bUnits = <<>>
    /\ validated = <<>>
    /\ cUnits = <<>>
    /\ tests = <<>>
    /\ writtenFiles = <<>>
    /\ gUnits = <<>>
    /\ report = NoReport
    /\ fTitle = <<>>
    /\ fDevice = ""
    /\ fTests = {}
    /\ wTitles = <<>>
    /\ wDevice = ""
    /\ wTests = <<>>
    /\ wNext = 0
    /\ wDisk = {}
    /\ gContent = <<<<>>>>
    /\ gDiag = <<>>
    /\ gAnalyses = {}
    /\ qLists = NoIssues
    /\ qScore = 100
    /\ hResults = <<>>
    /\ hReport = {}
    /\ kText = <<>>
    /\ kKeywords = <<>>
    /\ kSelectors = {}
    /\ kEndpoints = <<>>
    /\ lConfig = [provider |-> "", model |-> "", apiKey |-> ""]
    /\ lEnv = [LLM_PROVIDER |-> "", OPENAI_API_KEY |-> "", ANTHROPIC_API_KEY |-> ""]
    /\ lClient = "none"
    /\ lCalls = 0
    /\ xDiag = <<>>
    /\ xPc = "returned"
    /\ xNext = 1
    /\ xErrors = <<>>
    /\ xCaught = FALSE
    /\ tStory = <<>>
    /\ tKb = {}
    /\ tPc = "done"
    /\ tScenarios = <<>>
    /\ tValidated = <<>>
    /\ tTests = <<>>
    /\ tDisk = {}
    /\ tWritten = <<>>
    /\ uSteps = <<>>
    /\ uType = "positive"
    /\ uOutcome = <<>>
    /\ uBody = {}
    /\ mPc = "returned"
    /\ mUnits = <<>>
    /\ mConnected = FALSE
    /\ mLog = <<>>

\* generateSingleTest of both agents for one scenario, its title and device drawn
InitFiles ==
    /\ rpc = "returned"
    /\ argMaxRetries = 0
    /\ cfgMaxRetries = 0
    /\ attempt = 1
    /\ lastError = NoError
    /\ rlog = <<>>
    /\ rresult = NoResult
    /\ sPc = "init"
    /\ sStory = "generic"
    /\ sResp = AResp("fail", <<>>)
    /\ sScenarios = <<>>
    /\ sValidated = <<>>
    /\ pc = "done"
    /\ userStory = "signin"
    /\ aCalls = 0
    /\ aOut = [path |-> "none", invocationFailed |-> FALSE]
    /\ scenarios = <<>>
    /\ bUnits = <<>>
    /\ validated = <<>>
    /\ cUnits = <<>>
    /\ tests = <<>>
    /\ writtenFiles = <<>>
    /\ gUnits = <<>>
    /\ report = NoReport
    /\ fTitle \in SeqsUpTo(TitleChars, MaxTitleLen)
    /\ fDevice \in Devices
    /\ fTests = {}
    /\ wTitles = <<>>
    /\ wDevice = ""
    /\ wTests = <<>>
    /\ wNext = 0
    /\ wDisk = {}
    /\ gContent = <<<<>>>>
    /\ gDiag = <<>>
    /\ gAnalyses = {}
    /\ qLists = NoIssues
    /\ qScore = 100
    /\ hResults = <<>>
    /\ hReport = {}
    /\ kText = <<>>
    /\ kKeywords = <<>>
    /\ kSelectors = {}
    /\ kEndpoints = <<>>
    /\ lConfig = [provider |-> "", model |-> "", apiKey |-> ""]
    /\ lEnv = [LLM_PROVIDER |-> "", OPENAI_API_KEY |-> "", ANTHROPIC_API_KEY |-> ""]
    /\ lClient = "none"
    /\ lCalls = 0
    /\ xDiag = <<>>
    /\ xPc = "returned"
    /\ xNext = 1
    /\ xErrors = <<>>
    /\ xCaught = FALSE
    /\ tStory = <<>>
    /\ tKb = {}
    /\ tPc = "done"
    /\ tScenarios = <<>>
    /\ tValidated = <<>>
    /\ tTests = <<>>
    /\ tDisk = {}
    /\ tWritten = <<>>
    /\ uSteps = <<>>
    /\ uType = "positive"
    /\ uOutcome = <<>>
    /\ uBody = {}
    /\ mPc = "returned"
    /\ mUnits = <<>>
    /\ mConnected = FALSE
    /\ mLog = <<>>

\* the write loop for one batch of two scenarios of distinct titles and one device
InitBatch ==
    /\ rpc = "returned"
    /\ argMaxRetries = 0
    /\ cfgMaxRetries = 0
    /\ attempt = 1
    /\ lastError = NoError
    /\ rlog = <<>>
    /\ rresult = NoResult
    /\ sPc = "init"
    /\ sStory = "generic"
    /\ sResp = AResp("fail", <<>>)
    /\ sScenarios = <<>>
    /\ sValidated = <<>>
    /\ pc = "done"
    /\ userStory = "signin"
    /\ aCalls = 0
    /\ aOut = [path |-> "none", invocationFailed |-> FALSE]
    /\ scenarios = <<>>
    /\ bUnits = <<>>
    /\ validated = <<>>
    /\ cUnits = <<>>
    /\ tests = <<>>
    /\ writtenFiles = <<>>
    /\ gUnits = <<>>
    /\ report = NoReport
    /\ fTitle = <<>>
    /\ fDevice = ""
    /\ fTests = {}
    /\ wTitles \in {t \in SeqsUpTo(SeqsUpTo(TitleChars, MaxBatchTitleLen), 2) :
                      /\ Len(t) = 2
                      /\ t[1] # <<>> /\ t[2] # <<>>
                      /\ t[1] # t[2]}
    /\ wDevice \in Devices
    /\ wTests = <<>>
    /\ wNext = 0
    /\ wDisk = {}
    /\ gContent = <<<<>>>>
    /\ gDiag = <<>>
    /\ gAnalyses = {}
    /\ qLists = NoIssues
    /\ qScore = 100
    /\ hResults = <<>>
    /\ hReport = {}
    /\ kText = <<>>
    /\ kKeywords = <<>>
    /\ kSelectors = {}
    /\ kEndpoints = <<>>
    /\ lConfig = [provider |-> "", model |-> "", apiKey |-> ""]
    /\ lEnv = [LLM_PROVIDER |-> "", OPENAI_API_KEY |-> "", ANTHROPIC_API_KEY |-> ""]
    /\ lClient = "none"
    /\ lCalls = 0
    /\ xDiag = <<>>
    /\ xPc = "returned"
    /\ xNext = 1
    /\ xErrors = <<>>
    /\ xCaught = FALSE
    /\ tStory = <<>>
    /\ tKb = {}
    /\ tPc = "done"
    /\ tScenarios = <<>>
    /\ tValidated = <<>>
    /\ tTests = <<>>
    /\ tDisk = {}
    /\ tWritten = <<>>
    /\ uSteps = <<>>
    /\ uType = "positive"
    /\ uOutcome = <<>>
    /\ uBody = {}
    /\ mPc = "returned"
    /\ mUnits = <<>>
    /\ mConnected = FALSE
    /\ mLog = <<>>

FileNext == GenerateSingleTestLC \/ GenerateSingleTestMCP
BatchNext == BatchGenerate \/ BatchWrite

\* analyzeIndividualTest for one test file, its text and diagnostics drawn
InitAnalysis ==
    /\ rpc = "returned"
    /\ argMaxRetries = 0
    /\ cfgMaxRetries = 0
    /\ attempt = 1
    /\ lastError = NoError
    /\ rlog = <<>>
    /\ rresult = NoResult
    /\ sPc = "init"
    /\ sStory = "generic"
    /\ sResp = AResp("fail", <<>>)
    /\ sScenarios = <<>>
    /\ sValidated = <<>>
    /\ pc = "done"
    /\ userStory = "signin"
    /\ aCalls = 0
    /\ aOut = [path |-> "none", invocationFailed |-> FALSE]
    /\ scenarios = <<>>
    /\ bUnits = <<>>
    /\ validated = <<>>
    /\ cUnits = <<>>
    /\ tests = <<>>
    /\ writtenFiles = <<>>
    /\ gUnits = <<>>
    /\ report = NoReport
    /\ fTitle = <<>>
    /\ fDevice = ""
    /\ fTests = {}
    /\ wTitles = <<>>
    /\ wDevice = ""
    /\ wTests = <<>>
    /\ wNext = 0
    /\ wDisk = {}
    /\ gContent \in SeqsUpTo(SourceLines, MaxLines) \ {<<>>}
    /\ gDiag \in {<<>>, <<1>>}
    /\ gAnalyses = {}
    /\ qLists = NoIssues
    /\ qScore = 100
    /\ hResults = <<>>
    /\ hReport = {}
    /\ kText = <<>>
    /\ kKeywords = <<>>
    /\ kSelectors = {}
    /\ kEndpoints = <<>>
    /\ lConfig = [provider |-> "", model |-> "", apiKey |-> ""]
    /\ lEnv = [LLM_PROVIDER |-> "", OPENAI_API_KEY |-> "", ANTHROPIC_API_KEY |-> ""]
    /\ lClient = "none"
    /\ lCalls = 0
    /\ xDiag = <<>>
    /\ xPc = "returned"
    /\ xNext = 1
    /\ xErrors = <<>>
    /\ xCaught = FALSE
    /\ tStory = <<>>
    /\ tKb = {}
    /\ tPc = "done"
    /\ tScenarios = <<>>
    /\ tValidated = <<>>
    /\ tTests = <<>>
    /\ tDisk = {}
    /\ tWritten = <<>>
    /\ uSteps = <<>>
    /\ uType = "positive"
    /\ uOutcome = <<>>
    /\ uBody = {}
    /\ mPc = "returned"
    /\ mUnits = <<>>
    /\ mConnected = FALSE
    /\ mLog = <<>>

\* calculateQualityScore, starting from the analysis of a text with nothing detected
InitScore ==
    /\ rpc = "returned"
    /\ argMaxRetries = 0
    /\ cfgMaxRetries = 0
    /\ attempt = 1
    /\ lastError = NoError
    /\ rlog = <<>>
    /\ rresult = NoResult
    /\ sPc = "init"
    /\ sStory = "generic"
    /\ sResp = AResp("fail", <<>>)
    /\ sScenarios = <<>>
    /\ sValidated = <<>>
    /\ pc = "done"
    /\ userStory = "signin"
    /\ aCalls = 0
    /\ aOut = [path |-> "none", invocationFailed |-> FALSE]
    /\ scenarios = <<>>
    /\ bUnits = <<>>
    /\ validated = <<>>
    /\ cUnits = <<>>
    /\ tests = <<>>
    /\ writtenFiles = <<>>
    /\ gUnits = <<>>
    /\ report = NoReport
    /\ fTitle = <<>>
    /\ fDevice = ""
    /\ fTests = {}
    /\ wTitles = <<>>
    /\ wDevice = ""
    /\ wTests = <<>>
    /\ wNext = 0
    /\ wDisk = {}
    /\ gContent = <<<<>>>>
    /\ gDiag = <<>>
    /\ gAnalyses = {}
    /\ qLists = NoIssues
    /\ qScore = 100
    /\ hResults = <<>>
    /\ hReport = {}
    /\ kText = <<>>
    /\ kKeywords = <<>>
    /\ kSelectors = {}
    /\ kEndpoints = <<>>
    /\ lConfig = [provider |-> "", model |-> "", apiKey |-> ""]
    /\ lEnv = [LLM_PROVIDER |-> "", OPENAI_API_KEY |-> "", ANTHROPIC_API_KEY |-> ""]
    /\ lClient = "none"
    /\ lCalls = 0
    /\ xDiag = <<>>
    /\ xPc = "returned"
    /\ xNext = 1
    /\ xErrors = <<>>
    /\ xCaught = FALSE
    /\ tStory = <<>>
    /\ tKb = {}
    /\ tPc = "done"
    /\ tScenarios = <<>>
    /\ tValidated = <<>>
    /\ tTests = <<>>
    /\ tDisk = {}
    /\ tWritten = <<>>
    /\ uSteps = <<>>
    /\ uType = "positive"
    /\ uOutcome = <<>>
    /\ uBody = {}
    /\ mPc = "returned"
    /\ mUnits = <<>>
    /\ mConnected = FALSE
    /\ mLog = <<>>

\* analyzeTestsAndGenerateReport, before the first file is analysed
InitReport ==
    /\ rpc = "returned"
    /\ argMaxRetries = 0
    /\ cfgMaxRetries = 0
    /\ attempt = 1
    /\ lastError = NoError
    /\ rlog = <<>>
    /\ rresult = NoResult
    /\ sPc = "init"
    /\ sStory = "generic"
    /\ sResp = AResp("fail", <<>>)
    /\ sScenarios = <<>>
    /\ sValidated = <<>>
    /\ pc = "done"
    /\ userStory = "signin"
    /\ aCalls = 0
    /\ aOut = [path |-> "none", invocationFailed |-> FALSE]
    /\ scenarios = <<>>
    /\ bUnits = <<>>
    /\ validated = <<>>
    /\ cUnits = <<>>
    /\ tests = <<>>
    /\ writtenFiles = <<>>
    /\ gUnits = <<>>
    /\ report = NoReport
    /\ fTitle = <<>>
    /\ fDevice = ""
    /\ fTests = {}
    /\ wTitles = <<>>
    /\ wDevice = ""
    /\ wTests = <<>>
    /\ wNext = 0
    /\ wDisk = {}
    /\ gContent = <<<<>>>>
    /\ gDiag = <<>>
    /\ gAnalyses = {}
    /\ qLists = NoIssues
    /\ qScore = 100
    /\ hResults = <<>>
    /\ hReport = {}
    /\ kText = <<>>
    /\ kKeywords = <<>>
    /\ kSelectors = {}
    /\ kEndpoints = <<>>
    /\ lConfig = [provider |-> "", model |-> "", apiKey |-> ""]
    /\ lEnv = [LLM_PROVIDER |-> "", OPENAI_API_KEY |-> "", ANTHROPIC_API_KEY |-> ""]
    /\ lClient = "none"
    /\ lCalls = 0
    /\ xDiag = <<>>
    /\ xPc = "returned"
    /\ xNext = 1
    /\ xErrors = <<>>
    /\ xCaught = FALSE
    /\ tStory = <<>>
    /\ tKb = {}
    /\ tPc = "done"
    /\ tScenarios = <<>>
    /\ tValidated = <<>>
    /\ tTests = <<>>
    /\ tDisk = {}
    /\ tWritten = <<>>
    /\ uSteps = <<>>
    /\ uType = "positive"
    /\ uOutcome = <<>>
    /\ uBody = {}
    /\ mPc = "returned"
    /\ mUnits = <<>>
    /\ mConnected = FALSE
    /\ mLog = <<>>

\* one look-up, the text drawn
InitKb ==
    /\ rpc = "returned"
    /\ argMaxRetries = 0
    /\ cfgMaxRetries = 0
    /\ attempt = 1
    /\ lastError = NoError
    /\ rlog = <<>>
    /\ rresult = NoResult
    /\ sPc = "init"
    /\ sStory = "generic"
    /\ sResp = AResp("fail", <<>>)
    /\ sScenarios = <<>>
    /\ sValidated = <<>>
    /\ pc = "done"
    /\ userStory = "signin"
    /\ aCalls = 0
    /\ aOut = [path |-> "none", invocationFailed |-> FALSE]
    /\ scenarios = <<>>
    /\ bUnits = <<>>
    /\ validated = <<>>
    /\ cUnits = <<>>
    /\ tests = <<>>
    /\ writtenFiles = <<>>
    /\ gUnits = <<>>
    /\ report = NoReport
    /\ fTitle = <<>>
    /\ fDevice = ""
    /\ fTests = {}
    /\ wTitles = <<>>
    /\ wDevice = ""
    /\ wTests = <<>>
    /\ wNext = 0
    /\ wDisk = {}
    /\ gContent = <<<<>>>>
    /\ gDiag = <<>>
    /\ gAnalyses = {}
    /\ qLists = NoIssues
    /\ qScore = 100
    /\ hResults = <<>>
    /\ hReport = {}
    /\ kText \in {JoinWords(w) : w \in SeqsUpTo(TextWords, MaxWords)}
    /\ kKeywords = <<>>
    /\ kSelectors = {}
    /\ kEndpoints = <<>>
    /\ lConfig = [provider |-> "", model |-> "", apiKey |-> ""]
    /\ lEnv = [LLM_PROVIDER |-> "", OPENAI_API_KEY |-> "", ANTHROPIC_API_KEY |-> ""]
    /\ lClient = "none"
    /\ lCalls = 0
    /\ xDiag = <<>>
    /\ xPc = "returned"
    /\ xNext = 1
    /\ xErrors = <<>>
    /\ xCaught = FALSE
    /\ tStory = <<>>
    /\ tKb = {}
    /\ tPc = "done"
    /\ tScenarios = <<>>
    /\ tValidated = <<>>
    /\ tTests = <<>>
    /\ tDisk = {}
    /\ tWritten = <<>>
    /\ uSteps = <<>>
    /\ uType = "positive"
    /\ uOutcome = <<>>
    /\ uBody = {}
    /\ mPc = "returned"
    /\ mUnits = <<>>
    /\ mConnected = FALSE
    /\ mLog = <<>>

\* one construction of the client, the config argument and the environment drawn
InitClient ==
    /\ rpc = "returned"
    /\ argMaxRetries = 0
    /\ cfgMaxRetries = 0
    /\ attempt = 1
    /\ lastError = NoError
    /\ rlog = <<>>
    /\ rresult = NoResult
    /\ sPc = "init"
    /\ sStory = "generic"
    /\ sResp = AResp("fail", <<>>)
    /\ sScenarios = <<>>
    /\ sValidated = <<>>
    /\ pc = "done"
    /\ userStory = "signin"
    /\ aCalls = 0
    /\ aOut = [path |-> "none", invocationFailed |-> FALSE]
    /\ scenarios = <<>>
    /\ bUnits = <<>>
    /\ validated = <<>>
    /\ cUnits = <<>>
    /\ tests = <<>>
    /\ writtenFiles = <<>>
    /\ gUnits = <<>>
    /\ report = NoReport
    /\ fTitle = <<>>
    /\ fDevice = ""
    /\ fTests = {}
    /\ wTitles = <<>>
    /\ wDevice = ""
    /\ wTests = <<>>
    /\ wNext = 0
    /\ wDisk = {}
    /\ gContent = <<<<>>>>
    /\ gDiag = <<>>
    /\ gAnalyses = {}
    /\ qLists = NoIssues
    /\ qScore = 100
    /\ hResults = <<>>
    /\ hReport = {}
    /\ kText = <<>>
    /\ kKeywords = <<>>
    /\ kSelectors = {}
    /\ kEndpoints = <<>>
    /\ lConfig \in [provider : ProviderNames, model : {"", "m"}, apiKey : {"", "key"}]
    /\ lEnv \in [LLM_PROVIDER : ProviderNames, OPENAI_API_KEY : {"", "key"},
                 ANTHROPIC_API_KEY : {"", "key"}]
    /\ lClient = "none"
    /\ lCalls = 0
    /\ xDiag = <<>>
    /\ xPc = "returned"
    /\ xNext = 1
    /\ xErrors = <<>>
    /\ xCaught = FALSE
    /\ tStory = <<>>
    /\ tKb = {}
    /\ tPc = "done"
    /\ tScenarios = <<>>
    /\ tValidated = <<>>
    /\ tTests = <<>>
    /\ tDisk = {}
    /\ tWritten = <<>>
    /\ uSteps = <<>>
    /\ uType = "positive"
    /\ uOutcome = <<>>
    /\ uBody = {}
    /\ mPc = "returned"
    /\ mUnits = <<>>
    /\ mConnected = FALSE
    /\ mLog = <<>>

\* one call of analyzeSyntaxErrors, the compiler's diagnostics drawn
InitSyntax ==
    /\ rpc = "returned"
    /\ argMaxRetries = 0
    /\ cfgMaxRetries = 0
    /\ attempt = 1
    /\ lastError = NoError
    /\ rlog = <<>>
    /\ rresult = NoResult
    /\ sPc = "init"
    /\ sStory = "generic"
    /\ sResp = AResp("fail", <<>>)
    /\ sScenarios = <<>>
    /\ sValidated = <<>>
    /\ pc = "done"
    /\ userStory = "signin"
    /\ aCalls = 0
    /\ aOut = [path |-> "none", invocationFailed |-> FALSE]
    /\ scenarios = <<>>
    /\ bUnits = <<>>
    /\ validated = <<>>
    /\ cUnits = <<>>
    /\ tests = <<>>
    /\ writtenFiles = <<>>
    /\ gUnits = <<>>
    /\ report = NoReport
    /\ fTitle = <<>>
    /\ fDevice = ""
    /\ fTests = {}
    /\ wTitles = <<>>
    /\ wDevice = ""
    /\ wTests = <<>>
    /\ wNext = 0
    /\ wDisk = {}
    /\ gContent = <<<<>>>>
    /\ gDiag = <<>>
    /\ gAnalyses = {}
    /\ qLists = NoIssues
    /\ qScore = 100
    /\ hResults = <<>>
    /\ hReport = {}
    /\ kText = <<>>
    /\ kKeywords = <<>>
    /\ kSelectors = {}
    /\ kEndpoints = <<>>
    /\ lConfig = [provider |-> "", model |-> "", apiKey |-> ""]
    /\ lEnv = [LLM_PROVIDER |-> "", OPENAI_API_KEY |-> "", ANTHROPIC_API_KEY |-> ""]
    /\ lClient = "none"
    /\ lCalls = 0
    /\ xDiag \in SeqsUpTo(DiagnosticKinds, MaxDiags)
    /\ xPc = "try"
    /\ xNext = 1
    /\ xErrors = <<>>
    /\ xCaught = FALSE
    /\ tStory = <<>>
    /\ tKb = {}
    /\ tPc = "done"
    /\ tScenarios = <<>>
    /\ tValidated = <<>>
    /\ tTests = <<>>
    /\ tDisk = {}
    /\ tWritten = <<>>
    /\ uSteps = <<>>
    /\ uType = "positive"
    /\ uOutcome = <<>>
    /\ uBody = {}
    /\ mPc = "returned"
    /\ mUnits = <<>>
    /\ mConnected = FALSE
    /\ mLog = <<>>

\* the pipeline without a model for the sign-in story, the knowledge base drawn
InitSignIn ==
    /\ rpc = "returned"
    /\ argMaxRetries = 0
    /\ cfgMaxRetries = 0
    /\ attempt = 1
    /\ lastError = NoError
    /\ rlog = <<>>
    /\ rresult = NoResult
    /\ sPc = "init"
    /\ sStory = "generic"
    /\ sResp = AResp("fail", <<>>)
    /\ sScenarios = <<>>
    /\ sValidated = <<>>
    /\ pc = "done"
    /\ userStory = "signin"
    /\ aCalls = 0
    /\ aOut = [path |-> "none", invocationFailed |-> FALSE]
    /\ scenarios = <<>>
    /\ bUnits = <<>>
    /\ validated = <<>>
    /\ cUnits = <<>>
    /\ tests = <<>>
    /\ writtenFiles = <<>>
    /\ gUnits = <<>>
    /\ report = NoReport
    /\ fTitle = <<>>
    /\ fDevice = ""
    /\ fTests = {}
    /\ wTitles = <<>>
    /\ wDevice = ""
    /\ wTests = <<>>
    /\ wNext = 0
    /\ wDisk = {}
    /\ gContent = <<<<>>>>
    /\ gDiag = <<>>
    /\ gAnalyses = {}
    /\ qLists = NoIssues
    /\ qScore = 100
    /\ hResults = <<>>
    /\ hReport = {}
    /\ kText = <<>>
    /\ kKeywords = <<>>
    /\ kSelectors = {}
    /\ kEndpoints = <<>>
    /\ lConfig = [provider |-> "", model |-> "", apiKey |-> ""]
    /\ lEnv = [LLM_PROVIDER |-> "", OPENAI_API_KEY |-> "", ANTHROPIC_API_KEY |-> ""]
    /\ lClient = "none"
    /\ lCalls = 0
    /\ xDiag = <<>>
    /\ xPc = "returned"
    /\ xNext = 1
    /\ xErrors = <<>>
    /\ xCaught = FALSE
    /\ tStory = Chars("User signs in to their account")
    /\ tKb \in SUBSET SignInKbEntries
    /\ tPc = "A"
    /\ tScenarios = <<>>
    /\ tValidated = <<>>
    /\ tTests = <<>>
    /\ tDisk = {}
    /\ tWritten = <<>>
    /\ uSteps = <<>>
    /\ uType = "positive"
    /\ uOutcome = <<>>
    /\ uBody = {}
    /\ mPc = "returned"
    /\ mUnits = <<>>
    /\ mConnected = FALSE
    /\ mLog = <<>>

\* one scenario rendered by the template, its steps, kind and expected outcome drawn
InitRender ==
    /\ rpc = "returned"
    /\ argMaxRetries = 0
    /\ cfgMaxRetries = 0
    /\ attempt = 1
    /\ lastError = NoError
    /\ rlog = <<>>
    /\ rresult = NoResult
    /\ sPc = "init"
    /\ sStory = "generic"
    /\ sResp = AResp("fail", <<>>)
    /\ sScenarios = <<>>
    /\ sValidated = <<>>
    /\ pc = "done"
    /\ userStory = "signin"
    /\ aCalls = 0
    /\ aOut = [path |-> "none", invocationFailed |-> FALSE]
    /\ scenarios = <<>>
    /\ bUnits = <<>>
    /\ validated = <<>>
    /\ cUnits = <<>>
    /\ tests = <<>>
    /\ writtenFiles = <<>>
    /\ gUnits = <<>>
    /\ report = NoReport
    /\ fTitle = <<>>
    /\ fDevice = ""
    /\ fTests = {}
    /\ wTitles = <<>>
    /\ wDevice = ""
    /\ wTests = <<>>
    /\ wNext = 0
    /\ wDisk = {}
    /\ gContent = <<<<>>>>
    /\ gDiag = <<>>
    /\ gAnalyses = {}
    /\ qLists = NoIssues
    /\ qScore = 100
    /\ hResults = <<>>
    /\ hReport = {}
    /\ kText = <<>>
    /\ kKeywords = <<>>
    /\ kSelectors = {}
    /\ kEndpoints = <<>>
    /\ lConfig = [provider |-> "", model |-> "", apiKey |-> ""]
    /\ lEnv = [LLM_PROVIDER |-> "", OPENAI_API_KEY |-> "", ANTHROPIC_API_KEY |-> ""]
    /\ lClient = "none"
    /\ lCalls = 0
    /\ xDiag = <<>>
    /\ xPc = "returned"
    /\ xNext = 1
    /\ xErrors = <<>>
    /\ xCaught = FALSE
    /\ tStory = <<>>
    /\ tKb = {}
    /\ tPc = "done"
    /\ tScenarios = <<>>
    /\ tValidated = <<>>
    /\ tTests = <<>>
    /\ tDisk = {}
    /\ tWritten = <<>>
    /\ uSteps \in SeqsUpTo(StepTexts, MaxSteps)
    /\ uType \in Kinds
    /\ uOutcome \in {Chars("User successfully completes the action"), Chars("An error is shown")}
    /\ uBody = {}
    /\ mPc = "returned"
    /\ mUnits = <<>>
    /\ mConnected = FALSE
    /\ mLog = <<>>

\* the pipeline without a model, the story drawn
InitStories ==
    /\ rpc = "returned"
    /\ argMaxRetries = 0
    /\ cfgMaxRetries = 0
    /\ attempt = 1
    /\ lastError = NoError
    /\ rlog = <<>>
    /\ rresult = NoResult
    /\ sPc = "init"
    /\ sStory = "generic"
    /\ sResp = AResp("fail", <<>>)
    /\ sScenarios = <<>>
    /\ sValidated = <<>>
    /\ pc = "done"
    /\ userStory = "signin"
    /\ aCalls = 0
    /\ aOut = [path |-> "none", invocationFailed |-> FALSE]
    /\ scenarios = <<>>
    /\ bUnits = <<>>
    /\ validated = <<>>
    /\ cUnits = <<>>
    /\ tests = <<>>
    /\ writtenFiles = <<>>
    /\ gUnits = <<>>
    /\ report = NoReport
    /\ fTitle = <<>>
    /\ fDevice = ""
    /\ fTests = {}
    /\ wTitles = <<>>
    /\ wDevice = ""
    /\ wTests = <<>>
    /\ wNext = 0
    /\ wDisk = {}
    /\ gContent = <<<<>>>>
    /\ gDiag = <<>>
    /\ gAnalyses = {}
    /\ qLists = NoIssues
    /\ qScore = 100
    /\ hResults = <<>>
    /\ hReport = {}
    /\ kText = <<>>
    /\ kKeywords = <<>>
    /\ kSelectors = {}
    /\ kEndpoints = <<>>
    /\ lConfig = [provider |-> "", model |-> "", apiKey |-> ""]
    /\ lEnv = [LLM_PROVIDER |-> "", OPENAI_API_KEY |-> "", ANTHROPIC_API_KEY |-> ""]
    /\ lClient = "none"
    /\ lCalls = 0
    /\ xDiag = <<>>
    /\ xPc = "returned"
    /\ xNext = 1
    /\ xErrors = <<>>
    /\ xCaught = FALSE
    /\ tStory \in {JoinWords(w) : w \in SeqsUpTo(StoryWords, MaxStoryWords)}
    /\ tKb = SignInKbEntries
    /\ tPc = "A"
    /\ tScenarios = <<>>
    /\ tValidated = <<>>
    /\ tTests = <<>>
    /\ tDisk = {}
    /\ tWritten = <<>>
    /\ uSteps = <<>>
    /\ uType = "positive"
    /\ uOutcome = <<>>
    /\ uBody = {}
    /\ mPc = "returned"
    /\ mUnits = <<>>
    /\ mConnected = FALSE
    /\ mLog = <<>>

\* one call of generatePlaywrightTests, the number of scenarios drawn
InitMcp ==
    /\ rpc = "returned"
    /\ argMaxRetries = 0
    /\ cfgMaxRetries = 0
    /\ attempt = 1
    /\ lastError = NoError
    /\ rlog = <<>>
    /\ rresult = NoResult
    /\ sPc = "init"
    /\ sStory = "generic"
    /\ sResp = AResp("fail", <<>>)
    /\ sScenarios = <<>>
    /\ sValidated = <<>>
    /\ pc = "done"
    /\ userStory = "signin"
    /\ aCalls = 0
    /\ aOut = [path |-> "none", invocationFailed |-> FALSE]
    /\ scenarios = <<>>
    /\ bUnits = <<>>
    /\ validated = <<>>
    /\ cUnits = <<>>
    /\ tests = <<>>
    /\ writtenFiles = <<>>
    /\ gUnits = <<>>
    /\ report = NoReport
    /\ fTitle = <<>>
    /\ fDevice = ""
    /\ fTests = {}
    /\ wTitles = <<>>
    /\ wDevice = ""
    /\ wTests = <<>>
    /\ wNext = 0
    /\ wDisk = {}
    /\ gContent = <<<<>>>>
    /\ gDiag = <<>>
    /\ gAnalyses = {}
    /\ qLists = NoIssues
    /\ qScore = 100
    /\ hResults = <<>>
    /\ hReport = {}
    /\ kText = <<>>
    /\ kKeywords = <<>>
    /\ kSelectors = {}
    /\ kEndpoints = <<>>
    /\ lConfig = [provider |-> "", model |-> "", apiKey |-> ""]
    /\ lEnv = [LLM_PROVIDER |-> "", OPENAI_API_KEY |-> "", ANTHROPIC_API_KEY |-> ""]
    /\ lClient = "none"
    /\ lCalls = 0
    /\ xDiag = <<>>
    /\ xPc = "returned"
    /\ xNext = 1
    /\ xErrors = <<>>
    /\ xCaught = FALSE
    /\ tStory = <<>>
    /\ tKb = {}
    /\ tPc = "done"
    /\ tScenarios = <<>>
    /\ tValidated = <<>>
    /\ tTests = <<>>
    /\ tDisk = {}
    /\ tWritten = <<>>
    /\ uSteps = <<>>
    /\ uType = "positive"
    /\ uOutcome = <<>>
    /\ uBody = {}
    /\ mPc = "initialize"
    /\ mUnits \in {[i \in 1..n |-> "idle"] : n \in 0..MaxScenarios}
    /\ mConnected = FALSE
    /\ mLog = <<>>

ReportNext == AnalyzeFile \/ GenerateReport

SpecRetry == InitRetry /\ [][RetryNext]_vars
SpecStages == InitStages /\ [][StageNext]_vars
SpecFiles == InitFiles /\ [][FileNext]_vars
SpecBatch == InitBatch /\ [][BatchNext]_vars
SpecAnalysis == InitAnalysis /\ [][Analyze]_vars
SpecScore == InitScore /\ [][DetectOneMore]_vars
SpecReport == InitReport /\ [][ReportNext]_vars
SpecKb == InitKb /\ [][Retrieve]_vars
SpecClient == InitClient /\ [][ClientNext]_vars
SpecSyntax == InitSyntax /\ [][SyntaxNext]_vars
SpecSignIn == InitSignIn /\ [][StoryNext]_vars
SpecRender == InitRender /\ [][GenerateFallbackTestContent]_vars
SpecStories == InitStories /\ [][StoryNext]_vars
SpecMcp == InitMcp /\ [][McpNext]_vars
Spec == Init /\ [][Next]_vars

(***************************************************************************)
(* Stage A and Stage B: properties                                         *)
(***************************************************************************)
ScenarioWellFormed(s) ==
    /\ s.title # ""
    /\ s.type \in Kinds
    /\ s.description # ""
    /\ s.expected_outcome # ""
    /\ s.device # ""
    /\ s.steps >= 0

ValidatedWellFormed(v) ==
    /\ ScenarioWellFormed(v.scenario)
    /\ v.selectors \in {"llm", "default", "kb"}
    /\ v.api_endpoints \in {"llm", "default", "kb"}
    /\ v.validation_notes >= 0

\* C1: for every userStory and every model outcome, expandUserStory returns exactly
\* 4 scenarios, exactly one of each kind positive, negative, edge, cross-device.
C1_ExactlyFourOnePerKind ==
    sPc = "expanded" =>
        /\ Len(sScenarios) = 4
        /\ \A k \in Kinds : Cardinality({i \in 1..Len(sScenarios) : sScenarios[i].type = k}) = 1

\* C3: for every input and every model outcome, expandUserStory and
\* validateScenarios return a non-empty result with every required field
\* present on every element.
C3_StructurallyValidNonEmpty ==
    sPc = "expanded" =>
        /\ Len(sScenarios) > 0
        /\ \A i \in 1..Len(sScenarios) : ScenarioWellFormed(sScenarios[i])
        /\ \A i \in 1..Len(sValidated) : ValidatedWellFormed(sValidated[i])
        /\ Len(sValidated) <= Len(sScenarios)

(***************************************************************************)
(* The pipeline: properties                                                *)
(***************************************************************************)
Settled(units) == \A i \in 1..Len(units) : units[i].st \in {"fulfilled", "rejected"}
Started(units) == units # <<>>
AfterB == pc \in {"C", "C_wait", "write", "G", "G_wait", "summary", "done", "failed"}
AfterC == pc \in {"write", "G", "G_wait", "summary", "done"}
AfterG == pc \in {"summary", "done"}

\* C2: generateTests never ends in a pipeline failure, whatever model calls fail.
C2_NeverFails == pc # "failed"

\* C6: a stage enters its fallback for a model invocation failure only after the
\* client has made the retry ceiling's number of invocations for that call.
C6_FallbackAfterRetries ==
    /\ (aOut.path = "fallback" /\ aOut.invocationFailed) => aCalls >= DefaultMaxRetries
    /\ \A i \in 1..Len(bUnits) :
          (bUnits[i].st = "fulfilled" /\ bUnits[i].out.val.path = "fallback")
              => bUnits[i].calls >= DefaultMaxRetries

\* C7: the output batch of Stage B, of Stage C and of Stage G has the length of
\* its input batch, and its i-th element is the one derived from the i-th input.
C7_IndexPreserving ==
    /\ AfterB =>
          /\ Len(validated) = Len(scenarios)
          /\ \A i \in 1..Len(validated) :
                validated[i].origin = i /\ validated[i].val.scenario = scenarios[i]
    /\ AfterC =>
          /\ Len(tests) = Len(validated)
          /\ \A i \in 1..Len(tests) :
                tests[i].origin = i /\ tests[i].val.filename = FilenameOf(validated[i].val)
    /\ AfterG =>
          /\ Len(report.testAnalyses) = Len(tests)
          /\ \A i \in 1..Len(tests) :
                /\ report.testAnalyses[i].origin = i
                /\ report.testAnalyses[i].val.filename = tests[i].val.filename
                /\ report.testAnalyses[i].val.quality = tests[i].val.content.quality

C7_Witness ==
    /\ pc = "done"
    /\ Len(report.testAnalyses) = 4
    /\ validated[1].val.path = "fallback" /\ validated[2].val.path = "primary"
    /\ tests[2].val.path = "fallback" /\ tests[3].val.path = "primary"
    /\ report.testAnalyses[3].val.path = "fallback"
    /\ report.testAnalyses[4].val.path = "primary"

\* C8: a stage's batch operation has completed, by returning or by raising, only
\* when every per-item unit of that batch has completed.
C8_JoinWaitsForAll ==
    /\ AfterB => Settled(bUnits)
    /\ (AfterC \/ (pc = "failed" /\ Started(cUnits))) => Settled(cUnits)
    /\ AfterG => Settled(gUnits)

\* C9: the stages run in the order A, B, C, G: no Stage B unit has started before
\* Stage A returned, no Stage C unit before every Stage B unit completed, no
\* Stage G unit before every Stage C unit completed, and the report exists only
\* once every analysis does.
C9_StageOrder ==
    /\ Started(bUnits) => (aOut.path # "none" /\ Len(bUnits) = Len(scenarios))
    /\ Started(cUnits) => (PromiseAll(bUnits) = validated /\ \A i \in 1..Len(bUnits) : bUnits[i].st = "fulfilled")
    /\ Started(gUnits) => (PromiseAll(cUnits) = tests /\ \A i \in 1..Len(cUnits) : cUnits[i].st = "fulfilled")
    /\ report # NoReport =>
          /\ \A i \in 1..Len(gUnits) : gUnits[i].st = "fulfilled"
          /\ Len(gUnits) = Len(tests)
          /\ Len(report.testAnalyses) = report.totalTests
          /\ report.totalTests = Len(tests)

C9_Witness ==
    /\ pc = "done"
    /\ report.totalTests = 4
    /\ \E i \in 1..Len(cUnits) : cUnits[i].calls = 2
    /\ \E i \in 1..Len(gUnits) : gUnits[i].calls = 1

(***************************************************************************)
(* Filenames: properties                                                   *)
(***************************************************************************)
\* C10: two tests generated for the same title and device have the same
\* filename, whichever agent produced them, on the primary or the fallback path,
\* whatever the model returned.
C10_FilenameOfTitleAndDevice ==
    \A a \in fTests, b \in fTests :
        (a.title = b.title /\ a.device = b.device) => a.filename = b.filename

C10_Witness ==
    /\ fTitle = <<"B", " ", "!">>
    /\ fDevice = "mobile"
    /\ \E a \in fTests, b \in fTests :
        /\ a.agent = "langchain" /\ a.path = "primary" /\ a.content = "flawed"
        /\ b.agent = "mcp" /\ b.path = "fallback" /\ b.content = "clean"
        /\ a.filename = <<"b", "-">> \o DeviceSuffix("mobile") \o SpecTs

\* C11: two scenarios of one batch with the same device and distinct titles get
\* distinct filenames, so no test of the batch is written to the file of another:
\* after the write loop the output directory holds one file per test.
C11_DistinctTitlesDistinctFiles ==
    /\ \A i \in 1..Len(wTests), j \in 1..Len(wTests) :
          i # j => wTests[i].filename # wTests[j].filename
    /\ wNext > Len(wTests) =>
          \A i \in 1..Len(wTests) : wTests[i] \in wDisk

(***************************************************************************)
(* The score: properties                                                   *)
(***************************************************************************)
\* the entries of a list that satisfy a condition, counted one by one
HowMany(list, Cond(_)) == Cardinality({k \in 1..Len(list) : Cond(list[k])})

GoodSignals(a) == HowMany(a.selectorQualityIssues, LAMBDA i : i.type = "good_selector")

\* C12: overallScore is 100 - 15 per syntax issue - 10 per API-usage error - 5 per
\* API-usage warning - 3 per locator-quality warning - 2 per performance issue
\* - 2 per maintainability issue + 2 per positive locator-quality signal, clamped
\* to [0,100]; best-practice issues and info-severity API-usage and
\* locator-quality issues do not change it.
C12_ScoreFormula ==
    LET raw == 100
               - 15 * Len(qLists.syntaxErrors)
               - 10 * HowMany(qLists.playwrightApiIssues, LAMBDA i : i.severity = "error")
               - 5 * HowMany(qLists.playwrightApiIssues, LAMBDA i : i.severity = "warning")
               - 3 * HowMany(qLists.selectorQualityIssues, LAMBDA i : i.severity = "warning")
               - 2 * Len(qLists.performanceIssues)
               - 2 * Len(qLists.maintainabilityIssues)
               + 2 * GoodSignals(qLists)
    IN  /\ raw < 0 => qScore = 0
        /\ raw > 100 => qScore = 100
        /\ raw \in 0..100 => qScore = raw

C12_Witness ==
    /\ Len(qLists.syntaxErrors) = 1
    /\ HowMany(qLists.playwrightApiIssues, LAMBDA i : i.severity = "error") = 1
    /\ HowMany(qLists.playwrightApiIssues, LAMBDA i : i.severity = "info") = 1
    /\ HowMany(qLists.selectorQualityIssues, LAMBDA i : i.severity = "warning") = 1
    /\ Len(qLists.performanceIssues) = 1
    /\ Len(qLists.warningsAndBestPractices) = 1
    /\ GoodSignals(qLists) = 1
    /\ qScore = 72

\* C13: one more Issue, of any list and severity, never increases overallScore;
\* one more positive locator-quality signal never decreases it; the score is in
\* [0,100] in every case.
C13_Monotonic ==
    /\ [](qScore \in 0..100)
    /\ [][ /\ (TotalEntries(qLists') = TotalEntries(qLists) + 1
               /\ GoodSignals(qLists') = GoodSignals(qLists)) => qScore' <= qScore
           /\ GoodSignals(qLists') = GoodSignals(qLists) + 1 => qScore' >= qScore ]_vars

C13_Witness ==
    /\ Len(qLists.syntaxErrors) = 6
    /\ GoodSignals(qLists) = 1
    /\ qScore = 12

(***************************************************************************)
(* One file's analysis: properties                                         *)
(***************************************************************************)
\* C14: the overallScore and the six issue lists of a test's analysis are the
\* same whether the recommendation call succeeds, fails or is not made; the score
\* is a function of the lists alone; a failed call leaves the generic checklist.
C14_ScoreIndependentOfRecommendations ==
    \A a \in gAnalyses :
        /\ \A b \in gAnalyses : a.overallScore = b.overallScore /\ a.lists = b.lists
        /\ a.overallScore = CalculateQualityScore(a.lists)
        /\ a.call = "fail" => a.recommendedFixes = "generic_checklist"

C14_Witness ==
    /\ \E a \in gAnalyses : a.call = "ok" /\ a.overallScore \in 1..99
    /\ \E a \in gAnalyses : a.call = "fail"
    /\ Cardinality(gAnalyses) = 2

\* the multiple-navigations entries of an analysis at line n
NavigationFlags(a, n) ==
    HowMany(a.lists.performanceIssues,
            LAMBDA i : i.type = "multiple_navigations" /\ i.line = n)

\* C17: with more than one navigation call in the text, the performance detector
\* emits a multiple-navigations Issue exactly once per line that holds a
\* navigation call and on no other line; with at most one, it emits none.
C17_OncePerNavigationLine ==
    \A a \in gAnalyses : \A n \in 1..Len(gContent) :
        NavigationFlags(a, n) =
            IF Occurrences(gContent, "goto(") > 1 /\ Includes(gContent[n], "goto(")
            THEN 1 ELSE 0

\* the missing-await entries of severity error of an analysis at line n
MissingAwaits(a, n) ==
    HowMany(a.lists.playwrightApiIssues,
            LAMBDA i : i.type = "missing_await" /\ i.severity = "error" /\ i.line = n)

\* the analysis holds one Issue in all, a missing await
OnlyDefectIsMissingAwait(a) ==
    /\ TotalEntries(a.lists) - GoodSignals(a.lists) = 1
    /\ HowMany(a.lists.playwrightApiIssues, LAMBDA i : i.type = "missing_await") = 1

\* the line holds a call on page with no await before it on the line
CallNotPrecededByAwait(line) ==
    \E i \in 1..Len(line) :
        /\ "page." \in Fragments(line[i])
        /\ \A j \in 1..(i - 1) : "await" \notin Fragments(line[j])

\* C18 (as stated): a missing-await Issue of severity error at a line if and only
\* if the line holds a recognized asynchronous call not preceded by an await
\* marker on that line and is not a return; a file whose only defect is one such
\* line has exactly one such Issue, at that line, and the score 90.
C18_MissingAwaitAsStated ==
    \A a \in gAnalyses :
        /\ \A n \in 1..Len(gContent) :
              MissingAwaits(a, n) =
                  IF CallNotPrecededByAwait(gContent[n]) /\ ~ Includes(gContent[n], "return")
                  THEN 1 ELSE 0
        /\ OnlyDefectIsMissingAwait(a) => a.overallScore = 90

\* C18 (amended): a missing-await Issue of severity error at a line if and only
\* if the line holds "page." and holds neither "await" nor "return" anywhere; a
\* file whose only defect is one such line has exactly one such Issue, at that
\* line, and the score min(100, 90 + 2 per positive locator-quality signal).
C18_MissingAwaitAnywhereOnLine ==
    \A a \in gAnalyses :
        /\ \A n \in 1..Len(gContent) :
              MissingAwaits(a, n) =
                  IF /\ Includes(gContent[n], "page.")
                     /\ ~ Includes(gContent[n], "await")
                     /\ ~ Includes(gContent[n], "return")
                  THEN 1 ELSE 0
        /\ OnlyDefectIsMissingAwait(a) =>
              /\ \E n \in 1..Len(gContent) :
                    /\ MissingAwaits(a, n) = 1
                    /\ \A m \in 1..Len(gContent) : m # n => MissingAwaits(a, m) = 0
              /\ 90 + 2 * GoodSignals(a.lists) <= 100 =>
                    a.overallScore = 90 + 2 * GoodSignals(a.lists)
              /\ 90 + 2 * GoodSignals(a.lists) > 100 => a.overallScore = 100

C18_Witness ==
    /\ gContent = << <<"import { test, expect } from '@playwright/test'">>,
                     <<"test.describe('suite', () => {">>,
                     <<"await ", "expect(page).toHaveTitle(/Home/)">>,
                     <<"page.getByRole('button')">> >>
    /\ \E a \in gAnalyses :
          /\ OnlyDefectIsMissingAwait(a)
          /\ MissingAwaits(a, 4) = 1
          /\ a.overallScore = 92

(***************************************************************************)
(* The report: properties                                                  *)
(***************************************************************************)
\* the actions of one priority a batch calls for: file by file, and within a
\* file in the order of the list
ExpectedActions(priority) ==
    Flatten([f \in 1..Len(hResults) |->
        LET list == CASE priority = "high" -> hResults[f].lists.syntaxErrors
                      [] priority = "medium" ->
                            SelectSeq(hResults[f].lists.playwrightApiIssues,
                                      LAMBDA i : i.severity = "error")
                      [] OTHER -> hResults[f].lists.performanceIssues
        IN  [k \in 1..Len(list) |-> [filename |-> hResults[f].filename, line |-> list[k].line]]])

\* the actions of one priority in a report, in the report's order
ReportedActions(r, priority) ==
    LET sel == SelectSeq(r.prioritizedActions, LAMBDA x : x.priority = priority)
    IN  [k \in 1..Len(sel) |-> [filename |-> sel[k].filename, line |-> sel[k].line]]

\* C15: the PrioritizedAction list holds exactly one action per syntax issue
\* (high), per API-usage issue of severity error (medium) and per performance
\* issue (low), and none for any other issue; every high action precedes every
\* medium one, which precedes every low one; actions of equal priority keep the
\* order of the input files and, within a file, the order of detection.
C15_PrioritizedActions ==
    \A r \in hReport :
        /\ \A p \in {"high", "medium", "low"} : ReportedActions(r, p) = ExpectedActions(p)
        /\ \A k \in 1..Len(r.prioritizedActions) :
              r.prioritizedActions[k].priority \in {"high", "medium", "low"}
        /\ \A i \in 1..Len(r.prioritizedActions), j \in 1..Len(r.prioritizedActions) :
              i < j => PriorityOrder(r.prioritizedActions[i].priority)
                          >= PriorityOrder(r.prioritizedActions[j].priority)

C15_Witness ==
    \E r \in hReport :
        /\ Len(hResults) = 2
        /\ Len(hResults[1].lists.syntaxErrors) = 0
        /\ Len(hResults[1].lists.performanceIssues) = 2
        /\ ReportedActions(r, "high") =
              << [filename |-> 2, line |-> 2], [filename |-> 2, line |-> 1],
                 [filename |-> 2, line |-> 1] >>
        /\ Len(ReportedActions(r, "medium")) = 3
        /\ Len(ReportedActions(r, "low")) = 2

\* C16: testsNeedingAttention is the number of analyses with overallScore < 70,
\* readyForExecution the number with no syntax issue, totalTests the number of
\* analysed files, and averageQualityScore the mean of the overallScores rounded
\* to the nearest integer.
C16_SummaryStatistics ==
    \A r \in hReport :
        LET n == Len(hResults)
            sum == SumOf([f \in 1..n |-> hResults[f].overallScore])
            avg == r.summary.averageQualityScore
        IN  /\ r.summary.totalTests = n
            /\ r.summary.testsNeedingAttention =
                  Cardinality({f \in 1..n : hResults[f].overallScore < 70})
            /\ r.summary.readyForExecution =
                  Cardinality({f \in 1..n : hResults[f].lists.syntaxErrors = <<>>})
            /\ n > 0 =>
                  /\ ~ avg.nan
                  /\ 2 * (n * avg.val - sum) <= n
                  /\ 2 * (sum - n * avg.val) <= n

C16_Witness ==
    \E r \in hReport :
        /\ r.summary.totalTests = 3
        /\ r.summary.testsNeedingAttention = 1
        /\ r.summary.readyForExecution = 2
        /\ 3 * r.summary.averageQualityScore.val
              > SumOf([f \in 1..3 |-> hResults[f].overallScore])

(***************************************************************************)
(* The retriever: properties                                               *)
(***************************************************************************)
\* C19: keyword "signin" matches the knowledge-base entry (category "forms",
\* name "sign_in"), and keyword "xyz" does not match it.
C19_SigninMatchesSignIn ==
    LET entry == [category |-> <<"f", "o", "r", "m", "s">>,
                  name |-> <<"s", "i", "g", "n", "_", "i", "n">>]
        found == entry \in kSelectors \/ \E e \in 1..Len(kEndpoints) : kEndpoints[e] = entry
    IN  /\ (\E k \in 1..Len(kKeywords) : kKeywords[k] = <<"s", "i", "g", "n", "i", "n">>)
              => found
        /\ kKeywords = << <<"x", "y", "z">> >> => ~ found

\* C20: a knowledge-base route is in the result of findRoutes if and only if at
\* least one keyword matches it by substring containment in either direction
\* (name or category contains the keyword, or the keyword contains the name or
\* the category), and then it is there exactly once.
C20_UnionWithoutDuplicates ==
    \A e \in 1..Len(KbEntries) :
        Cardinality({i \in 1..Len(kEndpoints) : kEndpoints[i] = KbEntries[e]}) =
            IF \E k \in 1..Len(kKeywords) :
                    \/ IsSubstring(kKeywords[k], KbEntries[e].name)
                    \/ IsSubstring(kKeywords[k], KbEntries[e].category)
                    \/ IsSubstring(KbEntries[e].name, kKeywords[k])
                    \/ IsSubstring(KbEntries[e].category, kKeywords[k])
            THEN 1 ELSE 0

(***************************************************************************)
(* The client's construction: properties                                   *)
(***************************************************************************)
\* the provider the construction selects: the argument's, else the
\* environment's, else openai
SelectedProvider ==
    IF lConfig.provider # "" THEN lConfig.provider
    ELSE IF lEnv.LLM_PROVIDER # "" THEN lEnv.LLM_PROVIDER ELSE "openai"

\* a credential for the selected provider is at hand
CredentialPresent ==
    \/ lConfig.apiKey # ""
    \/ SelectedProvider = "openai" /\ lEnv.OPENAI_API_KEY # ""
    \/ SelectedProvider = "anthropic" /\ lEnv.ANTHROPIC_API_KEY # ""

\* C21: construction succeeds if and only if the selected provider is one of
\* openai, anthropic, ollama and, for openai and anthropic, a credential is
\* present; otherwise it raises and no model call is ever made.
C21_ConstructionSucceedsIff ==
    /\ lClient # "none" =>
          (lClient = "constructed" <=>
              /\ SelectedProvider \in {"openai", "anthropic", "ollama"}
              /\ SelectedProvider \in {"openai", "anthropic"} => CredentialPresent)
    /\ lClient # "constructed" => lCalls = 0

C21_Witness ==
    /\ lClient = "raised"
    /\ SelectedProvider = "anthropic"
    /\ lEnv.OPENAI_API_KEY # ""
    /\ ~ CredentialPresent

(***************************************************************************)
(* The syntax check's catch: properties                                    *)
(***************************************************************************)
\* the errors the forEach records for a list of diagnostics
RECURSIVE Recorded(_)
Recorded(diag) ==
    IF diag = <<>> THEN <<>>
    ELSE LET d == diag[Len(diag)]
             front == Recorded(SubSeq(diag, 1, Len(diag) - 1))
         IN  IF d.file /\ ~ d.ignore
             THEN Append(front, [line |-> d.line + 1, type |-> "syntax_error",
                                 severity |-> "error"])
             ELSE front

\* C22 as stated: the syntax check never raises, and when an exception occurs
\* at any point inside it the result is a single synthetic Issue (line 1,
\* severity error) and nothing else.
C22_OnlyTheSyntheticIssue ==
    (xPc = "returned" /\ xCaught) =>
        /\ Len(xErrors) = 1
        /\ xErrors[1].line = 1 /\ xErrors[1].severity = "error"
        /\ xErrors[1].type = "compilation_failed"

\* C22, amended: the syntax check never raises; when an exception occurs inside
\* it the result is the errors recorded before the exception followed by one
\* synthetic Issue (line 1, severity error), which is the whole result when the
\* exception precedes the first recorded diagnostic; without an exception the
\* result is the recorded errors alone.
C22_RecordedThenSyntheticIssue ==
    xPc = "returned" =>
        IF xCaught
        THEN /\ Len(xErrors) >= 1
             /\ xErrors[Len(xErrors)].line = 1
             /\ xErrors[Len(xErrors)].severity = "error"
             /\ xErrors[Len(xErrors)].type = "compilation_failed"
             /\ SubSeq(xErrors, 1, Len(xErrors) - 1) = Recorded(SubSeq(xDiag, 1, xNext - 1))
             /\ \A e \in 1..(Len(xErrors) - 1) : xErrors[e].type = "syntax_error"
        ELSE xErrors = Recorded(xDiag)

C22_Witness ==
    /\ xPc = "returned"
    /\ xCaught
    /\ Len(xErrors) = 2
    /\ xErrors[1].type = "syntax_error"

(***************************************************************************)
(* The deterministic path for the sign-in story: properties                *)
(***************************************************************************)
\* C23: for the story "User signs in to their account", without a model,
\* Stage A yields four scenarios whose titles are about signing in and whose
\* positive steps are those of the sign-in template, and Stage B attaches to
\* each of them at least every locator of the knowledge base's sign_in category.
C23_SignInStory ==
    /\ tPc # "A" =>
          /\ Len(tScenarios) = 4
          /\ \A i \in 1..4 : IsSubstring(Chars("sign"), ToLowerCase(tScenarios[i].title))
          /\ tScenarios[1].steps = <<Chars("Navigate to the application")>> \o SignInSteps
    /\ \A i \in 1..Len(tValidated) :
          \A entry \in tKb :
              entry.category = Chars("sign_in") => entry \in tValidated[i].selectors

(***************************************************************************)
(* Stage A's scenarios: field domains                                      *)
(***************************************************************************)
\* C24: every Scenario Stage A returns, from the model or from the fallback,
\* has a kind among positive, negative, edge, cross-device, steps that are a
\* sequence and a device among desktop, mobile, tablet; a kind outside the four
\* is coerced to positive, and the device is mobile when the kind is
\* cross-device and desktop otherwise.
C24_ScenarioFieldDomains ==
    sPc # "init" =>
        /\ \A i \in 1..Len(sScenarios) :
              /\ sScenarios[i].type \in {"positive", "negative", "edge", "cross-device"}
              /\ sScenarios[i].steps \in Nat
              /\ sScenarios[i].device \in {"desktop", "mobile", "tablet"}
              /\ sScenarios[i].device =
                    IF sScenarios[i].type = "cross-device" THEN "mobile" ELSE "desktop"
        /\ ExpandUserStory(sStory, sResp).path = "primary" =>
              \A i \in 1..Len(sScenarios) :
                  sResp.items[i].type \notin {"positive", "negative", "edge", "cross-device"}
                      => sScenarios[i].type = "positive"

TriggersOf(category) ==
    CASE category = "navigate" -> {"navigate"}
      [] category = "click" -> {"click", "button"}
      [] category = "fill" -> {"fill", "enter"}
      [] category = "wait" -> {"wait", "load"}
      [] category = "verify" -> {"verify", "check"}

\* C26: the fallback of LangChainAgentC renders exactly one action block per
\* scenario step, in step order; the block's category is the first of navigate,
\* click, fill, wait, verify of which a trigger substring occurs in the
\* lower-cased step text, and unknown if there is none; the outcome check is
\* the error-visibility check if and only if the scenario's kind is negative.
C26_OneBlockPerStep ==
    \A body \in uBody :
        LET order == <<"navigate", "click", "fill", "wait", "verify">>
            hits(step) == {c \in 1..5 : \E t \in TriggersOf(order[c]) :
                              IsSubstring(Chars(t), ToLowerCase(step))}
        IN  /\ Len(body.blocks) = Len(uSteps)
            /\ \A i \in 1..Len(uSteps) :
                  /\ body.blocks[i].step = uSteps[i]
                  /\ body.blocks[i].category =
                        IF hits(uSteps[i]) = {} THEN "unknown"
                        ELSE order[CHOOSE c \in hits(uSteps[i]) :
                                      \A d \in hits(uSteps[i]) : c <= d]
            /\ body.outcome = "error_visible" <=> uType = "negative"

C26_Witness ==
    /\ uType = "negative"
    /\ uSteps = << Chars("Click the link to navigate home"), Chars("Hover over the menu") >>
    /\ \E body \in uBody :
          /\ body.blocks[1].category = "navigate"
          /\ body.blocks[2].category = "unknown"
          /\ body.outcome = "error_visible"

(***************************************************************************)
(* The deterministic path for every story: properties                      *)
(***************************************************************************)
\* C27: for every story the four fallback scenarios of Stage A have pairwise
\* distinct titles, Stage C derives pairwise distinct filenames from them, and
\* the write loop never replaces a file it wrote for another scenario.
C27_FallbackFilesDistinct ==
    /\ tPc # "A" =>
          /\ Len(tScenarios) = 4
          /\ \A i, j \in 1..4 : i # j => tScenarios[i].title # tScenarios[j].title
    /\ \A i, j \in 1..Len(tTests) : i # j => tTests[i].filename # tTests[j].filename
    /\ Cardinality(tDisk) = Len(tWritten)
    /\ \A i \in 1..Len(tWritten) : [filename |-> tWritten[i], content |-> i] \in tDisk

C27_Witness ==
    /\ tPc = "done"
    /\ tStory = Chars("User  up! User")
    /\ tScenarios[1].title = Chars("User  up! - Happy Path")
    /\ Cardinality(tDisk) = 4
    /\ [filename |-> Chars("user-up-mobile-experience-mobile.spec.ts"), content |-> 4] \in tDisk

(***************************************************************************)
(* The MCP client's life cycle: properties                                 *)
(***************************************************************************)
\* the positions in the log of the events with the given operation
At(op) == {k \in 1..Len(mLog) : mLog[k].op = op}

\* C28: in generatePlaywrightTests the MCP client is initialized before any
\* scenario's generation starts and disconnected only after all of them have
\* finished, and every initialize is followed by a disconnect by the time the
\* stage has ended, also when a generation raised and the stage failed.
C28_InitializeThenDisconnect ==
    /\ \A s \in At("start") : \E k \in At("initialize") : k < s
    /\ \A d \in At("disconnect") :
          /\ \A s \in At("start") : s < d
          /\ \A i \in 1..Len(mUnits) : \E e \in At("end") : mLog[e].i = i /\ e < d
    /\ mPc \in {"returned", "failed"} =>
          \A k \in At("initialize") : \E d \in At("disconnect") : k < d

(***************************************************************************)
(* The report's summary: bounds and the issue total                        *)
(***************************************************************************)
\* C29: for every batch of analysed files, the empty batch included,
\* averageQualityScore is an integer between 0 and 100, and neither
\* testsNeedingAttention nor readyForExecution exceeds totalTests.
C29_SummaryWithinBounds ==
    \A r \in hReport :
        /\ ~ r.summary.averageQualityScore.nan
        /\ r.summary.averageQualityScore.val \in 0..100
        /\ r.summary.testsNeedingAttention <= r.summary.totalTests
        /\ r.summary.readyForExecution <= r.summary.totalTests

\* C30: totalIssues is the sum, over the analysed files, of the numbers of
\* syntax, API-usage, locator-quality, performance and maintainability entries;
\* best-practice entries are not in it, and every good_selector entry is.
C30_TotalIssues ==
    \A r \in hReport :
        LET n == Len(hResults)
            counted(f) ==
                Len(hResults[f].lists.syntaxErrors)
                + Len(hResults[f].lists.playwrightApiIssues)
                + HowMany(hResults[f].lists.selectorQualityIssues,
                          LAMBDA i : i.type # "good_selector")
                + GoodSignals(hResults[f].lists)
                + Len(hResults[f].lists.performanceIssues)
                + Len(hResults[f].lists.maintainabilityIssues)
        IN  r.summary.totalIssues = SumOf([f \in 1..n |-> counted(f)])

C30_Witness ==
    \E r \in hReport :
        /\ Len(hResults) = 2
        /\ GoodSignals(hResults[1].lists) = 1
        /\ Len(hResults[1].lists.warningsAndBestPractices) > 0
        /\ Len(hResults[2].lists.syntaxErrors) = 3
        /\ r.summary.totalIssues =
              TotalEntries(hResults[1].lists) + TotalEntries(hResults[2].lists)
              - Len(hResults[1].lists.warningsAndBestPractices)
              - Len(hResults[2].lists.warningsAndBestPractices)

====
